---- MODULE Spec2Model ----
(***************************************************************************)
(* Model of the CV extraction and ranking core of CvAnalyzer:              *)
(*   backend/app/extractor/ingest.py         (read_cv and its readers)     *)
(*   backend/app/extractor/llm_extract.py    (extract_structured)          *)
(*   backend/app/extractor/async_extract.py  (extract_structured_async)    *)
(*   backend/app/extractor/compare_async.py  (compare_mission_with_cvs_..) *)
(*   backend/app/cv_routes.py, routes.py     (compare_cvs_with_mission,    *)
(*                                            extract_cv_data)             *)
(*   backend/app/schemas.py                  (DossierCompetences)          *)
(*   backend/app/extractor/normalizer.py     (normalize_extracted_data)    *)
(*                                                                         *)
(* A text is kept as the length of its stripped core (body) and the amount *)
(* of surrounding whitespace (pad); a JSON value is a pair <<kind, value>>.*)
(* The strings of the normalizer are sequences of characters.              *)
(***************************************************************************)
EXTENDS Integers, Sequences, FiniteSets, TLC

\* ------------------------------------------------------------------ bounds
MaxPad == 1          \* whitespace characters around the core of a text
MaxCvs == 2          \* CV files uploaded with one ranking request
MaxRequests == 2     \* concurrent requests of one kind: extracts, logins, callbacks

\* ------------------------------------------------------- program constants
MIN_TEXT_LEN == 50

\* ------------------------------------------------------------------- texts
Texts == [pad : 0..MaxPad, body : {0, MIN_TEXT_LEN - 1, MIN_TEXT_LEN}]

EmptyText == [pad |-> 0, body |-> 0]

\* len(s)
Len_(t) == t.pad + t.body

\* s.strip()
strip(t) == [pad |-> 0, body |-> t.body]

\* Python truthiness of a str
Truthy(t) == Len_(t) > 0

\* `not s or len(s.strip()) < 50`
TooShort(t) == (~Truthy(t)) \/ Len_(strip(t)) < MIN_TEXT_LEN

\* Optional values: <<>> is None, <<x>> is x.
None == <<>>
Some(x) == <<x>>
IsNone(o) == o = <<>>
The(o) == o[1]

\* ------------------------------------------------------------------- files
\* The argument of read_cv: a path (str / Path) or a file-like object.
StreamFiles ==
    [how : {"stream"}, exists : {TRUE}, ext : {"-"}, sig : {"%PDF", "PK", "other"}]

Files ==
    [how : {"path"}, exists : BOOLEAN, ext : {".pdf", ".docx", ".txt", ".odt"},
     sig : {"-"}]
    \cup StreamFiles

\* What the parsing libraries do with the content of a file: p is the primary
\* library (pdfplumber, python-docx, first decode), s the PyPDF2 fallback,
\* pypdf2 whether PyPDF2 can be imported, r the lossy utf-8 decode.  A library
\* either raises, or yields the joined text of the document ("text"), or, for
\* a PDF, raises in page.extract_text() on some page while the other pages
\* yield the joined text v ("pages"; a document without pages reads as text).
Envs ==
    LET LibOut == {[k |-> "raise", v |-> EmptyText]}
                      \cup {[k |-> "text", v |-> t] : t \in Texts}
                      \cup {[k |-> "pages", v |-> t] : t \in {u \in Texts : u.pad = 0}}
    IN  [p : LibOut, s : LibOut, pypdf2 : BOOLEAN, r : Texts]

\* Result of a reader: the returned text, or an exception that propagates.
Ok(t) == [k |-> "ok", v |-> t]
Raise(e) == [k |-> e, v |-> EmptyText]

CVExtractionError == "CVExtractionError"
LLMExtractionError == "LLMExtractionError"
ValueError == "ValueError"
OtherException == "Exception"

\* full_text = '\n'.join(text_parts).strip(); if len(full_text) < 50: raise
CheckedText(t, err) ==
    IF Len_(strip(t)) < MIN_TEXT_LEN THEN Raise(err) ELSE Ok(strip(t))

\* _read_pdf has no handler around page.extract_text(): the exception of one
\* page leaves the reader
read_pdf(env) ==
    IF env.p.k \in {"raise", "pages"} THEN Raise(OtherException)
    ELSE CheckedText(env.p.v, CVExtractionError)

\* the PyPDF2 fallback of _read_pdf_bytes (lines 112-141)
read_pdf_bytes_fallback_nocheck(env) ==
    IF ~env.pypdf2 THEN Raise(CVExtractionError)
    ELSE IF env.s.k = "raise" THEN Raise(CVExtractionError)
    ELSE Ok(strip(env.s.v))

read_pdf_bytes_fallback(env) ==
    IF ~env.pypdf2 THEN Raise(CVExtractionError)
    ELSE IF env.s.k = "raise" THEN Raise(CVExtractionError)
    ELSE CheckedText(env.s.v, CVExtractionError)

\* every exception of the pdfplumber block, the insufficient-text error
\* included, is caught and sends the reader to the fallback
read_pdf_bytes(env) ==
    LET first == IF env.p.k = "raise" THEN Raise(OtherException)
                 ELSE CheckedText(env.p.v, CVExtractionError)
    IN  IF first.k = "ok" THEN first ELSE read_pdf_bytes_fallback(env)

read_docx(env) ==
    IF env.p.k = "raise" THEN Raise(OtherException)
    ELSE CheckedText(env.p.v, CVExtractionError)

read_docx_filelike(env) ==
    IF env.p.k = "raise" THEN Raise(OtherException)
    ELSE CheckedText(env.p.v, CVExtractionError)

\* decode with the detected encoding, on UnicodeDecodeError decode as utf-8
\* with replacement
read_txt(env) ==
    CheckedText(IF env.p.k = "raise" THEN env.r ELSE env.p.v, CVExtractionError)

read_txt_bytes(env) ==
    CheckedText(IF env.p.k = "raise" THEN env.r ELSE env.p.v, CVExtractionError)

\* The branch of read_cv that a file takes: by extension for a path, by the
\* leading bytes for a file-like object.
DispatchPdfUnlessZip(file) ==
    IF file.how = "path"
    THEN IF ~file.exists THEN "none"
         ELSE IF file.ext = ".pdf" THEN "_read_pdf"
         ELSE IF file.ext = ".docx" THEN "_read_docx"
         ELSE IF file.ext = ".txt" THEN "_read_txt"
         ELSE "none"
    ELSE IF file.sig = "PK" THEN "_read_docx_filelike"
         ELSE "_read_pdf_bytes"

Dispatch(file) ==
    IF file.how = "path"
    THEN IF ~file.exists THEN "none"
         ELSE IF file.ext = ".pdf" THEN "_read_pdf"
         ELSE IF file.ext = ".docx" THEN "_read_docx"
         ELSE IF file.ext = ".txt" THEN "_read_txt"
         ELSE "none"
    ELSE IF file.sig = "%PDF" THEN "_read_pdf_bytes"
         ELSE IF file.sig = "PK" THEN "_read_docx_filelike"
         ELSE "_read_txt_bytes"

\* The call of the reader the branch names; "none" is the missing file or
\* the unsupported extension, a CVExtractionError.
read_cv_dispatch(file, env) ==
    LET name == Dispatch(file)
    IN
    IF name = "_read_pdf" THEN read_pdf(env)
    ELSE IF name = "_read_docx" THEN read_docx(env)
    ELSE IF name = "_read_txt" THEN read_txt(env)
    ELSE IF name = "_read_pdf_bytes" THEN read_pdf_bytes(env)
    ELSE IF name = "_read_docx_filelike" THEN read_docx_filelike(env)
    ELSE IF name = "_read_txt_bytes" THEN read_txt_bytes(env)
    ELSE Raise(CVExtractionError)

\* The reader that ran, with the library that produced the text of a PDF
\* given as bytes.
ReaderOf(file, env) ==
    IF Dispatch(file) = "_read_pdf_bytes"
          /\ ~(env.p.k # "raise" /\ CheckedText(env.p.v, CVExtractionError).k = "ok")
    THEN "_read_pdf_bytes/PyPDF2"
    ELSE Dispatch(file)

\* try: ... except Exception as e: raise CVExtractionError(...)
read_cv(file, env) ==
    LET r == read_cv_dispatch(file, env)
    IN  IF r.k = "ok" THEN r ELSE Raise(CVExtractionError)

\* ------------------------------------------------------------- JSON values
\* A JSON value is <<kind, value>>.  "absent" is the state of a key that the
\* enclosing object does not have.  A string is a sequence of characters.
JAbsent == <<"absent", 0>>
JNull == <<"null", 0>>
JStr(s) == <<"str", s>>
JNum(n) == <<"num", n>>
JList(items) == <<"list", items>>
JDict(fields) == <<"dict", fields>>

Kind(x) == x[1]
Val(x) == x[2]

Whitespace == {" ", "\n"}

\* str.strip() on a character sequence: from the first to the last character
\* that is not whitespace
StripStr(s) ==
    LET kept == {i \in 1..Len(s) : s[i] \notin Whitespace}
    IN  IF kept = {} THEN <<>>
        ELSE SubSeq(s, CHOOSE i \in kept : \A j \in kept : i <= j,
                       CHOOSE i \in kept : \A j \in kept : i >= j)

\* s.split('\n'): the sequence of the lines of s
RECURSIVE SplitLines(_, _)
SplitLines(s, cur) ==
    IF s = <<>> THEN <<cur>>
    ELSE IF Head(s) = "\n" THEN <<cur>> \o SplitLines(Tail(s), <<>>)
    ELSE SplitLines(Tail(s), Append(cur, Head(s)))

\* [r.strip() for r in resp.split('\n') if r.strip()]
RECURSIVE NonBlankLines(_)
NonBlankLines(ls) ==
    IF ls = <<>> THEN <<>>
    ELSE IF StripStr(Head(ls)) = <<>> THEN NonBlankLines(Tail(ls))
    ELSE <<JStr(StripStr(Head(ls)))>> \o NonBlankLines(Tail(ls))

\* ", ".join(str(x) for x in parts); str(x) for the element kinds the replies
\* of the model contain
RECURSIVE JoinComma(_)
JoinComma(parts) ==
    LET StrOf(x) == IF Kind(x) = "str" THEN Val(x) ELSE <<ToString(Val(x))>>
    IN  IF parts = <<>> THEN <<>>
        ELSE IF Len(parts) = 1 THEN StrOf(Head(parts))
        ELSE StrOf(Head(parts)) \o <<",", " ">> \o JoinComma(Tail(parts))

\* if isinstance(value, list):
\*     return ", ".join(str(x) for x in value if x is not None)
coerce_list_to_string(value) ==
    IF Kind(value) = "list"
    THEN JStr(JoinComma(SelectSeq(Val(value), LAMBDA x : Kind(x) # "null")))
    ELSE value

\* ------------------------------------------------------ the Dossier schema
EnteteKeys == {"intitule_poste", "annees_experience", "prenom", "nom", "resume_profil"}

TechKeys == {"language_framework", "ci_cd", "state_management", "tests", "outils",
             "base_de_donnees_big_data", "data_analytics_visualisation",
             "collaboration", "ux_ui"}

\* a field declared `str = ""`
StrField(x) == Kind(x) \in {"absent", "str"}

\* a field declared `List[str] = []`
ListStrField(x) ==
    \/ Kind(x) = "absent"
    \/ /\ Kind(x) = "list"
       /\ \A i \in 1..Len(Val(x)) : Kind(Val(x)[i]) = "str"

ValidEntete(x) ==
    /\ Kind(x) = "dict"
    /\ \A k \in EnteteKeys : StrField(Val(x)[k])

ValidExperienceCleRecente(x) ==
    /\ Kind(x) = "dict"
    /\ StrField(Val(x).client)
    /\ StrField(Val(x).duree)
    /\ ListStrField(Val(x).responsabilites)

ValidCompetencesTechniques(x) ==
    /\ Kind(x) = "dict"
    /\ \A k \in TechKeys : ListStrField(Val(x)[k])

ValidCompetencesFonctionnelles(x) ==
    /\ Kind(x) = "dict"
    /\ ListStrField(Val(x).gestion_de_projet)
    /\ StrField(Val(x).encadrement)

ValidExperienceProfessionnelle(x) ==
    /\ Kind(x) = "dict"
    /\ StrField(Val(x).client)
    /\ ListStrField(Val(x).responsabilites)
    /\ Kind(Val(x).environnement_technique) = "absent"
          \/ ValidCompetencesTechniques(Val(x).environnement_technique)

\* experiences_cles_recentes: List[ExperienceCleRecente] = []
ListOfCles(x) ==
    \/ Kind(x) = "absent"
    \/ /\ Kind(x) = "list"
       /\ \A i \in 1..Len(Val(x)) : ValidExperienceCleRecente(Val(x)[i])

\* DossierCompetences(**extracted_dict) does not raise
ValidDossier(d) ==
    /\ Kind(d) = "dict"
    /\ ValidEntete(Val(d).entete)
    /\ ListOfCles(Val(d).experiences_cles_recentes)
    /\ ValidCompetencesTechniques(Val(d).competences_techniques)
    /\ ValidCompetencesFonctionnelles(Val(d).competences_fonctionnelles)
    /\ LET x == Val(d).experiences_professionnelles
       IN  \* experiences_professionnelles: List[ExperienceProfessionnelle] = []
           \/ Kind(x) = "absent"
           \/ /\ Kind(x) = "list"
              /\ \A i \in 1..Len(Val(x)) : ValidExperienceProfessionnelle(Val(x)[i])

\* DossierCompetences(**extracted_dict), for a dict that validates: the model
\* object, every field that the dict lacks holding its declared default.
\* a field declared `str = ""`
DefaultStr(x) == IF Kind(x) = "absent" THEN JStr(<<>>) ELSE x

\* a field declared `List[str] = []`
DefaultStrListNone(x) == IF Kind(x) = "absent" THEN JNull ELSE x

DefaultStrList(x) == IF Kind(x) = "absent" THEN JList(<<>>) ELSE x

Entete(x) == JDict([k \in EnteteKeys |-> DefaultStr(Val(x)[k])])

ExperienceCleRecente(x) ==
    JDict([client |-> DefaultStr(Val(x).client),
           duree |-> DefaultStr(Val(x).duree),
           responsabilites |-> DefaultStrList(Val(x).responsabilites)])

CompetencesTechniques(x) == JDict([k \in TechKeys |-> DefaultStrList(Val(x)[k])])

CompetencesFonctionnelles(x) ==
    JDict([gestion_de_projet |-> DefaultStrList(Val(x).gestion_de_projet),
           encadrement |-> DefaultStr(Val(x).encadrement)])

\* environnement_technique: ... = Field(default_factory=CompetencesTechniques)
ExperienceProfessionnelle(x) ==
    JDict([client |-> DefaultStr(Val(x).client),
           responsabilites |-> DefaultStrList(Val(x).responsabilites),
           environnement_technique |->
               IF Kind(Val(x).environnement_technique) = "absent"
               THEN CompetencesTechniques(JDict([k \in TechKeys |-> JAbsent]))
               ELSE CompetencesTechniques(Val(x).environnement_technique)])

DossierCompetences(d) ==
    LET \* a list of models declared `= []`
        DefaultList(x) == IF Kind(x) = "absent" THEN JList(<<>>) ELSE x
        cles == DefaultList(Val(d).experiences_cles_recentes)
        pros == DefaultList(Val(d).experiences_professionnelles)
    IN  JDict([entete |-> Entete(Val(d).entete),
               experiences_cles_recentes |->
                   JList([i \in 1..Len(Val(cles)) |-> ExperienceCleRecente(Val(cles)[i])]),
               competences_techniques |->
                   CompetencesTechniques(Val(d).competences_techniques),
               competences_fonctionnelles |->
                   CompetencesFonctionnelles(Val(d).competences_fonctionnelles),
               experiences_professionnelles |->
                   JList([i \in 1..Len(Val(pros)) |->
                             ExperienceProfessionnelle(Val(pros)[i])])])

\* ---------------------------------------------------------- the repair pass
\* cf['encadrement'] = coerce_list_to_string(cf.get('encadrement'))
RepairCf(cf) ==
    IF Kind(cf) = "dict" /\ Kind(Val(cf).encadrement) # "absent"
    THEN JDict([Val(cf) EXCEPT !.encadrement = coerce_list_to_string(@)])
    ELSE cf

\* for k in [...]: if k in ent: ent[k] = coerce_list_to_string(ent.get(k))
RepairEnteteFill(ent) ==
    IF Kind(ent) = "dict"
    THEN JDict([k \in EnteteKeys |->
                  IF Kind(Val(ent)[k]) # "absent"
                  THEN coerce_list_to_string(Val(ent)[k]) ELSE JStr(<<>>)])
    ELSE ent

RepairEntete(ent) ==
    IF Kind(ent) = "dict"
    THEN JDict([k \in EnteteKeys |->
                  IF Kind(Val(ent)[k]) # "absent"
                  THEN coerce_list_to_string(Val(ent)[k]) ELSE Val(ent)[k]])
    ELSE ent

\* ex_list is None (key missing or null) -> []; a dict -> [ex_list]
RepairExListWrapAll(ex) ==
    IF Kind(ex) \in {"absent", "null"} THEN JList(<<>>)
    ELSE JList(<<ex>>)

RepairExList(ex) ==
    IF Kind(ex) \in {"absent", "null"} THEN JList(<<>>)
    ELSE IF Kind(ex) = "dict" THEN JList(<<ex>>)
    ELSE ex

\* if isinstance(ex, dict): resp = ex.get('responsabilites');
\* if isinstance(resp, str): ex['responsabilites'] = [non-blank lines]
RepairExperience(ex) ==
    IF Kind(ex) = "dict" /\ Kind(Val(ex).responsabilites) = "str"
    THEN JDict([Val(ex) EXCEPT !.responsabilites =
                   JList(NonBlankLines(SplitLines(Val(@), <<>>)))])
    ELSE ex

RepairExperiences(ex) ==
    IF Kind(ex) = "list"
    THEN JList([i \in 1..Len(Val(ex)) |-> RepairExperience(Val(ex)[i])])
    ELSE ex

\* lines 120-145 of extract_structured_async: the repaired data under "ok", or
\* "raise" for the exception the pass raises.
\* `for ex in extracted_dict.get('experiences_cles_recentes', [])` iterates a
\* list or the characters of a string; any other value is not iterable
Repair(d) ==
    IF Kind(d) # "dict" THEN [k |-> "raise", v |-> JNull]
    ELSE LET exl == RepairExList(Val(d).experiences_cles_recentes)
         IN  IF Kind(exl) \notin {"list", "str"} THEN [k |-> "raise", v |-> JNull]
             ELSE [k |-> "ok", v |-> JDict([Val(d) EXCEPT
                     !.competences_fonctionnelles = RepairCf(@),
                     !.entete = RepairEntete(@),
                     !.experiences_cles_recentes = RepairExperiences(exl)])]

\* ------------------------------------------- replies of the completion service
sA == <<"a">>
sB == <<"b">>
sLines == <<"a", "\n", " ", "\n", "b", " ">>

GoodEntete == JDict([k \in EnteteKeys |-> JStr(sA)])

GoodCle ==
    JDict([client |-> JStr(sA), duree |-> JStr(sB),
           responsabilites |-> JList(<<JStr(sA)>>)])

CleStrResp == JDict([Val(GoodCle) EXCEPT !.responsabilites = JStr(sLines)])

GoodTech == JDict([k \in TechKeys |-> JList(<<JStr(sA)>>)])

GoodCf == JDict([gestion_de_projet |-> JList(<<JStr(sA)>>), encadrement |-> JStr(sA)])

GoodPro ==
    JDict([client |-> JStr(sA), responsabilites |-> JList(<<JStr(sB)>>),
           environnement_technique |-> GoodTech])

BaseReply ==
    [entete |-> GoodEntete,
     experiences_cles_recentes |-> JList(<<GoodCle, GoodCle, GoodCle, GoodCle, GoodCle>>),
     competences_techniques |-> GoodTech,
     competences_fonctionnelles |-> GoodCf,
     experiences_professionnelles |-> JList(<<GoodPro>>)]

\* A reply whose header needs the repair pass and which leaves categories of
\* technical skills out, at the top level and in a detailed experience.
SparseReply ==
    JDict([BaseReply EXCEPT
        !.entete = JDict([Val(GoodEntete) EXCEPT
                             !.resume_profil = JList(<<JStr(sA), JStr(sB)>>)]),
        !.competences_techniques =
            JDict([k \in TechKeys |-> IF k = "tests" THEN JAbsent ELSE JList(<<>>)]),
        !.experiences_professionnelles =
            JList(<<JDict([Val(GoodPro) EXCEPT !.environnement_technique = JAbsent]),
                    JDict([Val(GoodPro) EXCEPT !.environnement_technique =
                              JDict([k \in TechKeys |->
                                        IF k = "outils" THEN JAbsent
                                        ELSE JList(<<JStr(sB)>>)])])>>)])

\* The parsed function-call arguments: the base reply with one field, or the
\* header and the key experiences together, replaced; a sparse reply; or a
\* JSON array.
Replies ==
    LET
    EnteteVals ==
        { GoodEntete,
          JDict([Val(GoodEntete) EXCEPT !.resume_profil = JList(<<JStr(sA), JStr(sB)>>)]),
          JDict([Val(GoodEntete) EXCEPT !.prenom = JList(<<JStr(sA), JNull, JNum(3)>>)]),
          JDict([Val(GoodEntete) EXCEPT !.annees_experience = JNum(5)]),
          JDict([Val(GoodEntete) EXCEPT !.nom = JAbsent]),
          JAbsent }
    CleVals ==
        { JAbsent, JNull, GoodCle, CleStrResp,
          JList(<<>>),
          JList(<<GoodCle>>),
          JList(<<CleStrResp, GoodCle>>),
          JList(<<GoodCle, GoodCle, GoodCle, GoodCle, GoodCle>>),
          JList(<<JDict([Val(GoodCle) EXCEPT !.client = JNum(1)])>>),
          JList(<<JStr(sA)>>),
          JStr(sA),
          JNum(7) }
    TechVals ==
        { GoodTech,
          JDict([k \in TechKeys |-> IF k = "tests" THEN JAbsent ELSE JList(<<>>)]),
          JDict([Val(GoodTech) EXCEPT !.outils = JNull]),
          JAbsent }
    CfVals ==
        { GoodCf,
          JDict([Val(GoodCf) EXCEPT !.encadrement = JList(<<JStr(sA), JStr(sB)>>)]),
          JDict([Val(GoodCf) EXCEPT !.encadrement = JAbsent]),
          JDict([Val(GoodCf) EXCEPT !.encadrement = JNum(2)]),
          JAbsent }
    ProVals ==
        { JAbsent,
          JList(<<GoodPro>>),
          JList(<<JDict([Val(GoodPro) EXCEPT !.environnement_technique = JAbsent])>>),
          JList(<<JDict([Val(GoodPro) EXCEPT !.responsabilites = JStr(sLines)])>>),
          GoodPro }
    IN
    {JDict([BaseReply EXCEPT !.entete = e]) : e \in EnteteVals}
    \cup {JDict([BaseReply EXCEPT !.experiences_cles_recentes = x]) : x \in CleVals}
    \cup {JDict([BaseReply EXCEPT !.competences_techniques = t]) : t \in TechVals}
    \cup {JDict([BaseReply EXCEPT !.competences_fonctionnelles = c]) : c \in CfVals}
    \cup {JDict([BaseReply EXCEPT !.experiences_professionnelles = x]) : x \in ProVals}
    \cup {JDict([BaseReply EXCEPT !.entete = e, !.experiences_cles_recentes = x]) :
             e \in EnteteVals \ {GoodEntete}, x \in {JNull, CleStrResp}}
    \cup {SparseReply, JList(<<>>)}

\* The completion service as seen by one call: it fails on the first n
\* attempts and answers from then on.
stop_after_attempt == 3

Scripts ==
    {[i \in 1..(stop_after_attempt + 1) |-> IF i <= n THEN "fail" ELSE "ok"] :
        n \in 0..(stop_after_attempt + 1)}

\* ------------------------------------------------------ the ranking schema
\* One entry of "results": score is the integer of the reply, strengths and
\* weaknesses the lengths of its lists; typed is FALSE when some field has a
\* JSON type the schema rejects (a missing filename, a non-numeric score).
GoodItem == [filename |-> 1, score |-> 80, strengths |-> 1, weaknesses |-> 0, typed |-> TRUE]

\* The reply of the compare call.  text is its content, character by
\* character: "p" is a character of prose, and "{" directly followed by "}" is
\* the text of a JSON object.  shape and results tell what that object holds:
\* whether it has a "results" array, and the entries of the array.
CompareReplies ==
    LET
    Alphabet == {"p", "{", "}"}
    ReplyTexts ==
        UNION {[1..n -> Alphabet] : n \in 0..3}
        \cup {<<"p", "p", "{", "}">>, <<"{", "p", "{", "}">>, <<"p", "{", "}", "p">>}
    Items ==
        {[GoodItem EXCEPT !.score = x] : x \in {-1, 0, 100, 101}}
        \cup {[GoodItem EXCEPT !.strengths = n] : n \in {0, 1, 5, 6}}
        \cup {[GoodItem EXCEPT !.weaknesses = n] : n \in {0, 5, 6}}
        \cup {[GoodItem EXCEPT !.typed = FALSE]}
    ResultLists ==
        {[i \in 1..n |-> IF i = n THEN it ELSE GoodItem] :
            n \in 1..(MaxCvs + 1), it \in Items} \cup {<<>>}
    IN
    [text : {<<"{", "}">>}, shape : {"results"}, results : ResultLists]
    \cup [text : ReplyTexts, shape : {"results"},
          results : {<<GoodItem>>, <<[GoodItem EXCEPT !.score = 101]>>}]
    \cup [text : {<<"{", "}">>, <<"p", "{", "}">>}, shape : {"other"}, results : {<<>>}]

\* json.loads(text) does not raise
json_loads(text) == text = <<"{", "}">>

\* json.loads(text), else json.loads(text[text.index('{'):]): direct is the
\* first parse alone
ParsesDirectOnly(reply) == json_loads(reply.text)

Parses(reply) ==
    LET text == reply.text
        braces == {i \in 1..Len(text) : text[i] = "{"}
        start == CHOOSE i \in braces : \A j \in braces : i <= j
    IN  \/ json_loads(text)
        \/ /\ braces # {}
           /\ json_loads(SubSeq(text, start, Len(text)))

\* CompareResults.parse_obj(parsed) does not raise.  CompareResultItem:
\* score: int = Field(..., ge=0, le=100); strengths / weaknesses /
\* matched_skills: List[str] = Field(default_factory=list)
ValidCompareResults(reply) ==
    /\ reply.shape = "results"
    /\ \A i \in 1..Len(reply.results) :
          /\ reply.results[i].typed
          /\ reply.results[i].score >= 0
          /\ reply.results[i].score <= 100

\* One entry of cvs_summaries: the projection of an extracted Dossier, or a
\* placeholder that carries the filename only.
Summary(name, placeholder) == [filename |-> name, placeholder |-> placeholder]

\* ---------------------------------------------------- strings of characters
\* The normalizer works on short strings; a string is the sequence of its
\* characters.
Chars(s) == [i \in 1..Len(s) |-> SubSeq(s, i, i)]

LowerAlphabet == Chars("abcdefghijklmnopqrstuvwxyzéûà")
UpperAlphabet == Chars("ABCDEFGHIJKLMNOPQRSTUVWXYZÉÛÀ")
Digits == Chars("0123456789")

Letters == {LowerAlphabet[i] : i \in 1..Len(LowerAlphabet)}
              \cup {UpperAlphabet[i] : i \in 1..Len(UpperAlphabet)}
DigitSet == {Digits[i] : i \in 1..Len(Digits)}

\* the position of character c in alphabet a, 0 when it is not there
IndexIn(a, c) ==
    IF \E i \in 1..Len(a) : a[i] = c THEN CHOOSE i \in 1..Len(a) : a[i] = c ELSE 0

\* str.lower()
lower(s) ==
    [i \in 1..Len(s) |->
        IF IndexIn(UpperAlphabet, s[i]) > 0
        THEN LowerAlphabet[IndexIn(UpperAlphabet, s[i])] ELSE s[i]]

\* str.title(): a letter that follows a letter is lowered, any other letter
\* is raised
title(s) ==
    [i \in 1..Len(s) |->
        IF i > 1 /\ s[i - 1] \in Letters
        THEN lower(<<s[i]>>)[1]
        ELSE IF IndexIn(LowerAlphabet, s[i]) > 0
             THEN UpperAlphabet[IndexIn(LowerAlphabet, s[i])] ELSE s[i]]

\* int(s) for a string of digits
RECURSIVE ToInt(_)
ToInt(s) ==
    IF s = <<>> THEN 0
    ELSE 10 * ToInt(SubSeq(s, 1, Len(s) - 1)) + (IndexIn(Digits, s[Len(s)]) - 1)

\* str(n) for n >= 0
RECURSIVE IntStr(_)
IntStr(n) ==
    IF n < 10 THEN <<Digits[n + 1]>> ELSE IntStr(n \div 10) \o <<Digits[(n % 10) + 1]>>

\* f"{n:02d}"
TwoDigits(n) == IF n < 10 THEN <<"0">> \o IntStr(n) ELSE IntStr(n)

\* ------------------------------------------------------ regular expressions
\* A pattern is a sequence of tokens; a token matches between lo and hi
\* characters of the class c, as many as it can (hi = Unbounded for + and *).
\* Every group of the patterns of normalizer.py is one token.
Unbounded == 0 - 1

Tok(c, lo, hi) == [c |-> c, lo |-> lo, hi |-> hi]

\* re.match at pos: the substring every token matched, or None.  A token takes
\* as many characters as it can (run) and gives them back one at a time when
\* the rest of the pattern fails: the count kept is the largest that lets the
\* rest match.
RECURSIVE MatchTokens(_, _, _)
MatchTokens(toks, text, pos) ==
    IF toks = <<>> THEN Some(<<>>)
    ELSE LET tok == Head(toks)
             Fits(n) == /\ tok.hi = Unbounded \/ n <= tok.hi
                        /\ \A i \in 0..(n - 1) : text[pos + i] \in tok.c
             run == CHOOSE n \in 0..(Len(text) - pos + 1) :
                        Fits(n) /\ (n = Len(text) - pos + 1 \/ ~Fits(n + 1))
             counts == {n \in tok.lo..run :
                           ~IsNone(MatchTokens(Tail(toks), text, pos + n))}
         IN  IF counts = {} THEN None
             ELSE LET n == CHOOSE c \in counts : \A d \in counts : d <= c
                  IN  Some(<<SubSeq(text, pos, pos + n - 1)>>
                              \o The(MatchTokens(Tail(toks), text, pos + n)))

\* re.search(pattern, text): the leftmost match
re_search(toks, text) ==
    LET starts == {p \in 1..(Len(text) + 1) : ~IsNone(MatchTokens(toks, text, p))}
    IN  IF starts = {} THEN None
        ELSE MatchTokens(toks, text, CHOOSE p \in starts : \A q \in starts : p <= q)

\* the tokens of a literal word
Lits(w) == [i \in 1..Len(w) |-> Tok({w[i]}, 1, 1)]

DigitsN(n) == Tok(DigitSet, n, n)
SpaceStar == Tok(Whitespace, 0, Unbounded)
Arrow == "→"
RangeSep == Tok({Arrow, "-"}, 1, 1)

\* re.split(r'[→-]|to|jusqu\'?à', text, maxsplit); maxsplit = 0 sets no limit.
\* sep is the length of the separator that starts at pos, 0 when none starts
\* there.
RECURSIVE SplitParts(_, _, _, _, _)
SplitParts(text, pos, cur, made, maxsplit) ==
    LET StartsAt(w) ==
            pos + Len(w) - 1 <= Len(text) /\ SubSeq(text, pos, pos + Len(w) - 1) = w
        sep == IF text[pos] \in {Arrow, "-"} THEN 1
               ELSE IF StartsAt(Chars("to")) THEN 2
               ELSE IF StartsAt(Chars("jusqu'à")) THEN 7
               ELSE IF StartsAt(Chars("jusquà")) THEN 6
               ELSE 0
    IN  IF pos > Len(text) THEN <<cur>>
        ELSE IF sep > 0 /\ (maxsplit = 0 \/ made < maxsplit)
             THEN <<cur>> \o SplitParts(text, pos + sep, <<>>, made + 1, maxsplit)
             ELSE SplitParts(text, pos + 1, Append(cur, text[pos]), made, maxsplit)

re_split(text, maxsplit) == SplitParts(text, 1, <<>>, 0, maxsplit)

\* ------------------------------------------------ normalizer.py: date ranges
month_map ==
    { <<Chars("janvier"), 1>>, <<Chars("january"), 1>>, <<Chars("jan"), 1>>,
      <<Chars("février"), 2>>, <<Chars("fevrier"), 2>>, <<Chars("february"), 2>>,
      <<Chars("feb"), 2>>,
      <<Chars("mars"), 3>>, <<Chars("march"), 3>>, <<Chars("mar"), 3>>,
      <<Chars("avril"), 4>>, <<Chars("april"), 4>>, <<Chars("apr"), 4>>,
      <<Chars("mai"), 5>>, <<Chars("may"), 5>>,
      <<Chars("juin"), 6>>, <<Chars("june"), 6>>, <<Chars("jun"), 6>>,
      <<Chars("juillet"), 7>>, <<Chars("july"), 7>>, <<Chars("jul"), 7>>,
      <<Chars("août"), 8>>, <<Chars("aout"), 8>>, <<Chars("august"), 8>>,
      <<Chars("aug"), 8>>,
      <<Chars("septembre"), 9>>, <<Chars("september"), 9>>, <<Chars("sep"), 9>>,
      <<Chars("sept"), 9>>,
      <<Chars("octobre"), 10>>, <<Chars("october"), 10>>, <<Chars("oct"), 10>>,
      <<Chars("novembre"), 11>>, <<Chars("november"), 11>>, <<Chars("nov"), 11>>,
      <<Chars("décembre"), 12>>, <<Chars("decembre"), 12>>, <<Chars("december"), 12>>,
      <<Chars("dec"), 12>> }

\* month_map.get(month_str.lower().strip())
parse_month_name(month_str) ==
    LET key == StripStr(lower(month_str))
    IN  IF \E p \in month_map : p[1] = key
        THEN Some((CHOOSE p \in month_map : p[1] = key)[2])
        ELSE None

\* `patterns` of normalize_date_range: YYYY-MM, MM/YYYY, month name and year,
\* year only
date_patterns ==
    LET SpacePlus == Tok(Whitespace, 1, Unbounded)
        \* \w+
        WordPlus == Tok(Letters \cup DigitSet \cup {"_"}, 1, Unbounded)
    IN  << <<DigitsN(4)>> \o Lits(<<"-">>)
               \o <<DigitsN(2), SpaceStar, RangeSep, SpaceStar, DigitsN(4)>>
               \o Lits(<<"-">>) \o <<DigitsN(2)>>,
           <<DigitsN(2)>> \o Lits(<<"/">>)
               \o <<DigitsN(4), SpaceStar, RangeSep, SpaceStar, DigitsN(2)>>
               \o Lits(<<"/">>) \o <<DigitsN(4)>>,
           <<WordPlus, SpacePlus, DigitsN(4), SpaceStar, RangeSep, SpaceStar,
             WordPlus, SpacePlus, DigitsN(4)>>,
           <<DigitsN(4), SpaceStar, RangeSep, SpaceStar, DigitsN(4)>> >>

\* f"{a}-{b} → {c}-{d}"
DateRange(a, b, c, d) == a \o <<"-">> \o b \o <<" ", Arrow, " ">> \o c \o <<"-">> \o d

\* the MM/YYYY branch, on the groups (month, year, month, year)
SlashRangeUnswapped(g0, g1, g2, g3) == DateRange(g0, g1, g2, g3)

SlashRange(g0, g1, g2, g3) == DateRange(g1, g0, g3, g2)

\* dateutil's parse of one part of a range: None when it raises, else the
\* <<year, month>> of the datetime it returns.  An empty string raises; a
\* bare year takes its month from today's date; on any other text the
\* outcome is the library's (out).
DateutilEnvs ==
    LET ParseOut == {None, Some(<<2022, 1>>), Some(<<2023, 11>>)}
    IN  [start : ParseOut, end : ParseOut, today : {<<2026, 11>>, <<2027, 1>>}]

parse_date(part, out, today) ==
    IF part = <<>> THEN None
    ELSE IF Len(part) = 4 /\ \A i \in 1..4 : part[i] \in DigitSet
         THEN Some(<<ToInt(part), today[2]>>)
    ELSE out

\* the month-name branch: no return when a name is not in month_map, and the
\* loop goes on to the year-only pattern
MonthNameBranch(date_range) ==
    LET m == re_search(date_patterns[3], date_range)
    IN  IF IsNone(m) THEN None
        ELSE LET start_month == parse_month_name(The(m)[1])
                 end_month == parse_month_name(The(m)[7])
             IN  IF IsNone(start_month) \/ IsNone(end_month) THEN None
                 ELSE Some(DateRange(The(m)[3], TwoDigits(The(start_month)),
                                     The(m)[9], TwoDigits(The(end_month))))

normalize_date_range(date_range, env) ==
    LET m0 == re_search(date_patterns[1], date_range)
        m1 == re_search(date_patterns[2], date_range)
        m2 == MonthNameBranch(date_range)
        m3 == re_search(date_patterns[4], date_range)
        \* lines 83-91: the dateutil fallback, None when it gives nothing
        parts == re_split(date_range, 2)
        start == parse_date(StripStr(parts[1]), env.start, env.today)
        end == parse_date(StripStr(parts[2]), env.end, env.today)
        fb == IF Len(parts) # 2 THEN None
              ELSE IF IsNone(start) \/ IsNone(end) THEN None
              ELSE Some(DateRange(IntStr(The(start)[1]), TwoDigits(The(start)[2]),
                                  IntStr(The(end)[1]), TwoDigits(The(end)[2])))
    IN  IF date_range = <<>> THEN <<>>
        ELSE IF ~IsNone(m0)
        THEN DateRange(The(m0)[1], The(m0)[3], The(m0)[7], The(m0)[9])
        ELSE IF ~IsNone(m1)
        THEN SlashRange(The(m1)[1], The(m1)[3], The(m1)[7], The(m1)[9])
        ELSE IF ~IsNone(m2) THEN The(m2)
        ELSE IF ~IsNone(m3)
        THEN DateRange(The(m3)[1], Chars("01"), The(m3)[5], Chars("12"))
        ELSE IF ~IsNone(fb) THEN The(fb)
        ELSE date_range

\* ------------------------------------------- normalizer.py: language levels
DirectLevels ==
    {Chars("debutant"), Chars("intermediaire"), Chars("courant"), Chars("bilingue")}

level_map ==
    { <<Chars("débutant"), Chars("debutant")>>,
      <<Chars("beginner"), Chars("debutant")>>,
      <<Chars("basic"), Chars("debutant")>>,
      <<Chars("a1"), Chars("debutant")>>,
      <<Chars("a2"), Chars("debutant")>>,
      <<Chars("intermédiaire"), Chars("intermediaire")>>,
      <<Chars("intermediate"), Chars("intermediaire")>>,
      <<Chars("b1"), Chars("intermediaire")>>,
      <<Chars("b2"), Chars("intermediaire")>>,
      <<Chars("avancé"), Chars("courant")>>,
      <<Chars("avance"), Chars("courant")>>,
      <<Chars("advanced"), Chars("courant")>>,
      <<Chars("fluent"), Chars("courant")>>,
      <<Chars("c1"), Chars("courant")>>,
      <<Chars("natif"), Chars("bilingue")>>,
      <<Chars("native"), Chars("bilingue")>>,
      <<Chars("mothertounge"), Chars("bilingue")>>,
      <<Chars("langue maternelle"), Chars("bilingue")>>,
      <<Chars("c2"), Chars("bilingue")>> }

\* level_map.get(level_lower, 'intermediaire')
LevelMapGetDebutant(level_lower) ==
    IF \E p \in level_map : p[1] = level_lower
    THEN (CHOOSE p \in level_map : p[1] = level_lower)[2]
    ELSE Chars("debutant")

LevelMapGet(level_lower) ==
    IF \E p \in level_map : p[1] = level_lower
    THEN (CHOOSE p \in level_map : p[1] = level_lower)[2]
    ELSE Chars("intermediaire")

normalize_language_level(level) ==
    LET level_lower == StripStr(lower(level))
    IN  IF level_lower \in DirectLevels THEN level_lower ELSE LevelMapGet(level_lower)

\* ------------------------------------- normalizer.py: years of experience
\* r'(\d+)\s*<word>' and r'(\d+)\s*<word>[s]?'
DurationPattern(word, plural) ==
    <<Tok(DigitSet, 1, Unbounded), SpaceStar>> \o Lits(Chars(word))
        \o (IF plural THEN <<Tok({"s"}, 0, 1)>> ELSE <<>>)

year_patterns ==
    <<DurationPattern("an", TRUE), DurationPattern("year", TRUE),
      DurationPattern("yr", TRUE)>>

month_patterns ==
    <<DurationPattern("mois", FALSE), DurationPattern("month", TRUE),
      DurationPattern("mo", TRUE)>>

\* for pattern in patterns: match = re.search(pattern, text);
\*     if match: months += int(match.group(1)) * factor
RECURSIVE SumMatches(_, _, _)
SumMatches(patterns, text, factor) ==
    IF patterns = <<>> THEN 0
    ELSE LET m == re_search(Head(patterns), text)
         IN  (IF IsNone(m) THEN 0 ELSE ToInt(The(m)[1]) * factor)
                + SumMatches(Tail(patterns), text, factor)

estimate_months_from_dates(text, env) ==
    LET date_parts == re_split(text, 0)
        \* w in s
        Contains(s, w) ==
            \E i \in 1..(Len(s) - Len(w) + 1) : SubSeq(s, i, i + Len(w) - 1) = w
        PresentWords ==
            {Chars("present"), Chars("current"), Chars("actuel"), Chars("aujourd'hui")}
    IN  IF Len(date_parts) # 2 THEN 0
        ELSE LET start_str == StripStr(date_parts[1])
                 end_str == StripStr(date_parts[2])
                 end_date == IF \E w \in PresentWords : Contains(lower(end_str), w)
                             THEN Some(env.today)
                             ELSE parse_date(end_str, env.end, env.today)
                 start_date == parse_date(start_str, env.start, env.today)
                 months == (The(end_date)[1] - The(start_date)[1]) * 12
                               + (The(end_date)[2] - The(start_date)[2])
             IN  IF IsNone(end_date) \/ IsNone(start_date) THEN 0
                 ELSE IF months < 0 THEN 0 ELSE months

extract_duration_months(duration_text, env) ==
    LET text == lower(duration_text)
        months == SumMatches(year_patterns, text, 12) + SumMatches(month_patterns, text, 1)
    IN  IF duration_text = <<>> THEN 0
        ELSE IF months = 0 THEN estimate_months_from_dates(duration_text, env)
        ELSE months

\* round(total_months / 12): Python rounds a half to the even neighbour
PyRound12(total_months) ==
    LET q == total_months \div 12
        r == total_months % 12
    IN  IF 2 * r < 12 THEN q
        ELSE IF 2 * r > 12 THEN q + 1
        ELSE IF q % 2 = 0 THEN q ELSE q + 1

RECURSIVE TotalMonths(_, _)
TotalMonths(experiences, env) ==
    IF experiences = <<>> THEN 0
    ELSE extract_duration_months(Head(experiences), env)
            + TotalMonths(Tail(experiences), env)

\* max(0, round(total_months / 12)); experiences: the duration_text of each
\* entry
calculate_years_experience(experiences, env) ==
    LET years == PyRound12(TotalMonths(experiences, env))
    IN  IF years < 0 THEN 0 ELSE years

\* --------------------------------------------------- normalizer.py: skills
\* the category names normalize_skills loops over
NormalizerCategories ==
    <<"language_framework", "ci_cd", "state_management", "tests", "tools",
      "databases_big_data", "analytics_visualization", "collaboration", "ux_ui">>

\* the attribute names a technical-skills object is read or written under
TechAttrs == TechKeys \cup {NormalizerCategories[i] : i \in 1..Len(NormalizerCategories)}

\* the loop of clean_skill_list: cleaned is the list built from the skills
\* before the last one
RECURSIVE clean_skill_list(_)
clean_skill_list(skills) ==
    IF skills = <<>> THEN <<>>
    ELSE LET cleaned == clean_skill_list(SubSeq(skills, 1, Len(skills) - 1))
             skill == skills[Len(skills)]
             clean_skill == title(StripStr(skill))
         IN  IF StripStr(skill) = <<>>
                 \/ \E i \in 1..Len(cleaned) : lower(cleaned[i]) = lower(clean_skill)
             THEN cleaned
             ELSE Append(cleaned, clean_skill)

\* ", ".join(cleaned)
RECURSIVE JoinStrings(_)
JoinStrings(parts) ==
    IF parts = <<>> THEN <<>>
    ELSE IF Len(parts) = 1 THEN Head(parts)
    ELSE Head(parts) \o <<",", " ">> \o JoinStrings(Tail(parts))

\* the technical-skills object after the first n turns of the loop of
\* normalize_skills; each turn stores a string under the category's name
RECURSIVE TechnicalAfter(_, _)
TechnicalAfter(technical, n) ==
    IF n = 0 THEN technical
    ELSE LET before == TechnicalAfter(technical, n - 1)
             category == NormalizerCategories[n]
             \* getattr(skills.technical, category, []): the strings of the list
             skill_list ==
                 IF Kind(before[category]) = "absent" THEN <<>>
                 ELSE [i \in 1..Len(Val(before[category])) |->
                          Val(Val(before[category])[i])]
             cleaned == clean_skill_list(skill_list)
         IN  [before EXCEPT ![category] = JStr(JoinStrings(cleaned))]

normalize_skills(skills) ==
    [technical |-> TechnicalAfter(skills.technical, Len(NormalizerCategories)),
     functional |-> clean_skill_list(skills.functional),
     management |-> clean_skill_list(skills.management)]

\* normalize_extracted_data(data)
normalize_extracted_data(data, env) ==
    LET calculated_years == calculate_years_experience(data.experiences_key, env)
    IN  [projects |->
             [i \in 1..Len(data.projects) |-> normalize_date_range(data.projects[i], env)],
         languages |->
             [i \in 1..Len(data.languages) |-> normalize_language_level(data.languages[i])],
         years_experience |->
             IF data.years_experience <= 0 /\ calculated_years > 0
             THEN calculated_years ELSE data.years_experience,
         experiences_key |-> data.experiences_key,
         skills |-> normalize_skills(data.skills)]

\* ------------------------------------------------- inputs of the normalizer
SkillsInputs ==
    LET SkillList ==
            JList(<<JStr(Chars("python")), JStr(Chars(" Python ")), JStr(Chars("git hub"))>>)
    IN
    [technical :
         { [a \in TechAttrs |-> IF a \in TechKeys THEN SkillList ELSE JAbsent],
           [a \in TechAttrs |-> IF a \in TechKeys THEN JList(<<>>) ELSE JAbsent],
           [a \in TechAttrs |-> IF a = "outils" THEN SkillList
                                ELSE IF a \in TechKeys THEN JList(<<>>) ELSE JAbsent] },
     functional : {<<Chars("agile"), Chars("Agile "), <<" ">>>>},
     management : {<<>>}]

\* the data normalize_extracted_data reads: project.date_range of each
\* project, language.level of each language, candidate.years_experience,
\* exp.duration_text of each key experience, and the skills
ExtractedInputs ==
    [projects : {<<>>, <<Chars("03/2022 → 02/2023")>>},
     languages : {<<Chars("C1"), Chars("natif")>>},
     years_experience : {0 - 1, 0, 3},
     experiences_key :
         {<<>>, <<Chars("2 ans"), Chars("18 mois")>>, <<Chars("1 an")>>,
          <<Chars("2020 - 2022")>>},
     skills : SkillsInputs]

\* ------------------------------------------------------------------- state
VARIABLES
    op,             \* the operation under way: what the outside world called
    entry,          \* the engine function that is running
    pc,             \* its position
    cv_text,        \* arguments of extract_structured(_async)
    cv_file,
    mission_text,   \* arguments of compare_mission_with_cvs_async
    cvs_summaries,
    client,         \* behaviour of the completion service during this call
    llm_calls,      \* invocations of the completion service by this call
    text_content,
    extracted_dict,
    raw_reply,
    validations,    \* schema validations run by this call
    repairs,        \* repair passes run by this call
    origin,         \* type of the first exception raised inside this call
    outcome,        \* "none", "ok" or the type of the exception that leaves
    result,
    reader,         \* the reader that served the last read_cv of this call
    rpc,            \* position of the /compare endpoint
    mission,        \* its uploads: None or <<empty?>>, and a list of empty?
    cvs,
    idx,
    summaries,      \* its local cvs_summaries
    compare_calls,
    status,         \* its HTTP status, 0 while running
    file,           \* the upload of the /extract endpoint
    extraction_status,  \* of the CVAnalysis record the /extract endpoint keeps
    structured_data,    \* the structured_data column of that record
    caught,         \* the exception bound by the except clause that replied
    detail,         \* the detail of the HTTPException: its text, and the
                    \* exception whose str() it carries
    args,           \* arguments of the normalizer function called
    libs,           \* what the PDF libraries do, in a read_cv called on its own
    analyses,       \* extraction_status of the CVAnalysis rows of one user
    stats,          \* the running GET /stats request of that user
    oauth_states,   \* the keys of the oauth_states dict of routes/auth.py
    issued,         \* how many logins stored each state
    callbacks       \* the GET /auth/callback requests

engineVars ==
    <<entry, pc, cv_text, cv_file, mission_text, cvs_summaries, client, llm_calls,
      text_content, extracted_dict, raw_reply, validations, repairs, origin,
      outcome, result, reader>>

routeVars ==
    <<rpc, mission, cvs, idx, summaries, compare_calls, status, file,
      extraction_status, structured_data, caught, detail>>

normVars == <<args, libs, analyses, stats, oauth_states, issued, callbacks>>

vars == <<op, engineVars, routeVars, normVars>>

ExtractEntries == {"extract_structured", "extract_structured_async"}
CompareEntry == "compare_mission_with_cvs_async"
RouteOp == "compare_cvs_with_mission"

Init ==
    /\ op = "none"
    /\ entry = "none"
    /\ pc = "idle"
    /\ cv_text = None
    /\ cv_file = None
    /\ mission_text = None
    /\ cvs_summaries = <<>>
    /\ client = <<>>
    /\ llm_calls = 0
    /\ text_content = None
    /\ extracted_dict = None
    /\ raw_reply = None
    /\ validations = 0
    /\ repairs = 0
    /\ origin = "none"
    /\ outcome = "none"
    /\ result = None
    /\ reader = "none"
    /\ rpc = "idle"
    /\ mission = None
    /\ cvs = <<>>
    /\ idx = 0
    /\ summaries = <<>>
    /\ compare_calls = 0
    /\ status = 0
    /\ file = None
    /\ extraction_status = "none"
    /\ structured_data = None
    /\ caught = "none"
    /\ detail = None
    /\ args = None
    /\ libs = None
    /\ analyses = [r \in 1..MaxRequests |-> "none"]
    /\ stats = [pc |-> "idle", total_analyses |-> 0, successful_analyses |-> 0,
                failed_analyses |-> 0, pending_analyses |-> 0]
    /\ oauth_states = {}
    /\ issued = [s \in {"s1", "s2"} |-> 0]
    /\ callbacks = [c \in 1..MaxRequests |->
                       [pc |-> "idle", state |-> "none", accepted |-> FALSE,
                        session |-> FALSE]]

\* A call of an engine function begins.
Enter(e, first, t, f, m, s, c) ==
    /\ entry' = e
    /\ pc' = first
    /\ cv_text' = t
    /\ cv_file' = f
    /\ mission_text' = m
    /\ cvs_summaries' = s
    /\ client' = c
    /\ llm_calls' = 0
    /\ text_content' = None
    /\ extracted_dict' = None
    /\ raw_reply' = None
    /\ validations' = 0
    /\ repairs' = 0
    /\ origin' = "none"
    /\ outcome' = "none"
    /\ result' = None
    /\ reader' = "none"

\* The call ends by raising: first is the exception raised, err the one that
\* leaves the function.
Raised(first, err) ==
    /\ origin' = (IF origin = "none" THEN first ELSE origin)
    /\ outcome' = err
    /\ result' = None
    /\ pc' = "done"

Returned(value) ==
    /\ outcome' = "ok"
    /\ result' = Some(value)
    /\ pc' = "done"
    /\ UNCHANGED origin

\* ----------------------------------------------------------------- read_cv
\* read_cv(file) called on its own.
ReadCv(f) ==
    /\ op = "none"
    /\ op' = "read_cv"
    /\ entry' = "read_cv"
    /\ cv_file' = Some(f)
    /\ \E env \in Envs :
          LET r == read_cv(f, env)
          IN  /\ IF r.k = "ok" THEN Returned(r.v) ELSE Raised(r.k, r.k)
              /\ reader' = ReaderOf(f, env)
              /\ libs' = Some([p |-> env.p, s |-> env.s, pypdf2 |-> env.pypdf2])
    /\ UNCHANGED <<cv_text, mission_text, cvs_summaries, client, llm_calls,
                   text_content, extracted_dict, raw_reply, validations, repairs>>
    /\ UNCHANGED <<routeVars, args, analyses, stats, oauth_states, issued, callbacks>>

\* ------------------------------------- extract_structured(_async): the engine
\* extract_structured(cv_text, cv_file) or extract_structured_async(...) is
\* called from outside, the way extract_from_text(_async) and
\* extract_from_file(_async) call it: with a text, with a file, or (the
\* ValueError branch) with neither.
StartExtract(e, t, f, c) ==
    /\ op = "none"
    /\ op' = e
    /\ Enter(e, "get_text", t, f, None, <<>>, c)
    /\ UNCHANGED <<routeVars, normVars>>

\* except LLMExtractionError: raise
\* except Exception as e: raise LLMExtractionError(f"Extraction failed: {e}")
Propagated(e) == IF e = LLMExtractionError THEN e ELSE LLMExtractionError

\* if not text_content or len(text_content.strip()) < 50
TextGateUnstripped(t) == (~Truthy(t)) \/ Len_(t) < MIN_TEXT_LEN

TextGate(t) == TooShort(t)

\* "Get CV text" and the length check
GetText ==
    /\ pc = "get_text"
    /\ entry \in ExtractEntries
    /\ IF ~IsNone(cv_text) /\ Truthy(The(cv_text))
       THEN IF TextGate(The(cv_text))
            THEN /\ Raised(LLMExtractionError, LLMExtractionError)
                 /\ UNCHANGED <<text_content, reader>>
            ELSE /\ text_content' = cv_text
                 /\ pc' = "call"
                 /\ UNCHANGED <<origin, outcome, result, reader>>
       ELSE IF ~IsNone(cv_file)
       THEN \E env \in Envs :
              LET r == read_cv(The(cv_file), env)
              IN  /\ reader' = ReaderOf(The(cv_file), env)
                  /\ IF r.k # "ok"
                     THEN /\ Raised(r.k, Propagated(r.k))
                          /\ UNCHANGED text_content
                     ELSE IF TextGate(r.v)
                     THEN /\ Raised(LLMExtractionError, LLMExtractionError)
                          /\ text_content' = Some(r.v)
                     ELSE /\ text_content' = Some(r.v)
                          /\ pc' = "call"
                          /\ UNCHANGED <<origin, outcome, result>>
       ELSE /\ Raised(ValueError, Propagated(ValueError))
            /\ UNCHANGED <<text_content, reader>>
    /\ UNCHANGED <<op, entry, cv_text, cv_file, mission_text, cvs_summaries, client,
                   llm_calls, extracted_dict, raw_reply, validations, repairs>>
    /\ UNCHANGED <<routeVars, normVars>>

\* @retry(stop=stop_after_attempt(3), ...) decorates call_openai_extraction
\* only; call_openai_extraction_async carries no decorator.
ShouldRetryOneMore(e, attempts) == e = "extract_structured" /\ attempts <= stop_after_attempt

ShouldRetry(e, attempts) == e = "extract_structured" /\ attempts < stop_after_attempt

\* One attempt of call_openai_extraction(_async): the service is invoked; an
\* API error, a missing function call or unparseable arguments all leave the
\* attempt as LLMExtractionError.  raw_reply keeps function_call.arguments as
\* parsed; extracted_dict is the dict the repair pass works on in place.
CallCompletion ==
    /\ pc = "call"
    /\ entry \in ExtractEntries
    /\ llm_calls < Len(client)
    /\ llm_calls' = llm_calls + 1
    /\ IF client[llm_calls + 1] = "ok"
       THEN /\ \E reply \in Replies :
                  /\ raw_reply' = Some(reply)
                  /\ extracted_dict' = Some(reply)
            /\ pc' = "validate"
            /\ UNCHANGED <<origin, outcome, result>>
       ELSE IF ShouldRetry(entry, llm_calls + 1)
       THEN UNCHANGED <<pc, extracted_dict, raw_reply, origin, outcome, result>>
       ELSE /\ Raised(LLMExtractionError, LLMExtractionError)
            /\ UNCHANGED <<extracted_dict, raw_reply>>
    /\ UNCHANGED <<op, entry, cv_text, cv_file, mission_text, cvs_summaries, client,
                   text_content, validations, repairs>>
    /\ UNCHANGED <<reader, routeVars, normVars>>

\* "Validate and create Pydantic model".  When DossierCompetences(**extracted_dict)
\* raises, extract_structured raises LLMExtractionError (lines 293-296) and
\* extract_structured_async goes on to its repair pass (lines 107-145).
Validate ==
    /\ pc = "validate"
    /\ validations' = validations + 1
    /\ IF ValidDossier(The(extracted_dict))
       THEN Returned(DossierCompetences(The(extracted_dict)))
       ELSE IF entry = "extract_structured_async"
       THEN /\ pc' = "repair"
            /\ UNCHANGED <<origin, outcome, result>>
       ELSE Raised(OtherException, LLMExtractionError)
    /\ UNCHANGED <<op, entry, cv_text, cv_file, mission_text, cvs_summaries, client,
                   llm_calls, text_content, extracted_dict, raw_reply, repairs>>
    /\ UNCHANGED <<reader, routeVars, normVars>>

\* The repair pass; an exception inside it is caught at line 157.
RepairPass ==
    /\ pc = "repair"
    /\ repairs' = repairs + 1
    /\ LET r == Repair(The(extracted_dict))
       IN  IF r.k = "ok"
           THEN /\ extracted_dict' = Some(r.v)
                /\ pc' = "revalidate"
                /\ UNCHANGED <<origin, outcome, result>>
           ELSE /\ Raised(OtherException, LLMExtractionError)
                /\ UNCHANGED extracted_dict
    /\ UNCHANGED <<op, entry, cv_text, cv_file, mission_text, cvs_summaries, client,
                   llm_calls, text_content, raw_reply, validations>>
    /\ UNCHANGED <<reader, routeVars, normVars>>

\* "Retry validation once"
Revalidate ==
    /\ pc = "revalidate"
    /\ validations' = validations + 1
    /\ IF ValidDossier(The(extracted_dict))
       THEN Returned(DossierCompetences(The(extracted_dict)))
       ELSE Raised(OtherException, LLMExtractionError)
    /\ UNCHANGED <<op, entry, cv_text, cv_file, mission_text, cvs_summaries, client,
                   llm_calls, text_content, extracted_dict, raw_reply, repairs>>
    /\ UNCHANGED <<reader, routeVars, normVars>>

\* An extract call whose text passed the length check, as a function of what
\* the service does: c[i] is the outcome of its i-th invocation and reply the
\* arguments it answers with.  The value is <<calls, outcome, result>>, calls
\* being the number of invocations made.
\* llm_extract.py: call_openai_extraction under @retry, then one validation
extract_structured(c, reply) ==
    LET answered == {i \in 1..stop_after_attempt : c[i] = "ok"}
    IN  IF answered = {}
        THEN <<stop_after_attempt, LLMExtractionError, None>>
        ELSE LET calls == CHOOSE i \in answered : \A j \in answered : i <= j
             IN  IF ValidDossier(reply)
                 THEN <<calls, "ok", Some(DossierCompetences(reply))>>
                 ELSE <<calls, LLMExtractionError, None>>

\* async_extract.py: one invocation, validation, the repair pass and the
\* second validation
extract_structured_async(c, reply) ==
    IF c[1] # "ok" THEN <<1, LLMExtractionError, None>>
    ELSE IF ValidDossier(reply) THEN <<1, "ok", Some(DossierCompetences(reply))>>
    ELSE LET r == Repair(reply)
         IN  IF r.k = "ok" /\ ValidDossier(r.v)
             THEN <<1, "ok", Some(DossierCompetences(r.v))>>
             ELSE <<1, LLMExtractionError, None>>

\* ------------------------------------------- compare_mission_with_cvs_async
\* compare_mission_with_cvs_async(mission_text, cvs_summaries) is called from
\* outside.
StartCompare(m, s, c) ==
    /\ op = "none"
    /\ op' = CompareEntry
    /\ Enter(CompareEntry, "compare_call", None, None, Some(m), s, c)
    /\ UNCHANGED <<routeVars, normVars>>

\* The payload is built and the service invoked, once; any exception is
\* caught at line 108 and leaves as LLMExtractionError.
CompareCall ==
    /\ pc = "compare_call"
    /\ entry = CompareEntry
    /\ llm_calls' = llm_calls + 1
    /\ IF client[llm_calls + 1] = "ok"
       THEN /\ \E reply \in CompareReplies : raw_reply' = Some(reply)
            /\ pc' = "compare_parse"
            /\ UNCHANGED <<origin, outcome, result>>
       ELSE /\ Raised(OtherException, LLMExtractionError)
            /\ UNCHANGED raw_reply
    /\ UNCHANGED <<op, entry, cv_text, cv_file, mission_text, cvs_summaries, client,
                   text_content, extracted_dict, validations, repairs>>
    /\ UNCHANGED <<reader, routeVars, normVars>>

\* The reply is parsed and validated; validated.dict() is returned.
CompareParse ==
    /\ pc = "compare_parse"
    /\ LET reply == The(raw_reply)
       IN  IF ~Parses(reply)
           THEN /\ Raised(LLMExtractionError, LLMExtractionError)
                /\ UNCHANGED validations
           ELSE /\ validations' = validations + 1
                /\ IF ValidCompareResults(reply)
                   THEN Returned(reply.results)
                   ELSE Raised(LLMExtractionError, LLMExtractionError)
    /\ UNCHANGED <<op, entry, cv_text, cv_file, mission_text, cvs_summaries, client,
                   llm_calls, text_content, extracted_dict, raw_reply, repairs>>
    /\ UNCHANGED <<reader, routeVars, normVars>>

\* ------------------------------------ the /compare endpoint (ranking workflow)
\* An upload is <<empty>>: whether its content is the empty byte string.  The
\* signature of a non-empty content is drawn when it is read.
\* POST /compare with cvs and mission.
StartRoute(m, fs) ==
    /\ op = "none"
    /\ op' = RouteOp
    /\ rpc' = "mission"
    /\ mission' = m
    /\ cvs' = fs
    /\ UNCHANGED <<idx, summaries, compare_calls, status, file, extraction_status, structured_data,
                   caught, detail>>
    /\ UNCHANGED <<engineVars, normVars>>

\* The status an endpoint answers a failure with: input the client must fix
\* (an unreadable or too short document, a refused upload) or a failure of
\* the extraction or ranking behind it.
StatusOfSwapped(failure) == IF failure = "input" THEN 500 ELSE 400

StatusOf(failure) == IF failure = "input" THEN 400 ELSE 500

\* raise HTTPException(status_code=..., detail=...): e is the exception the
\* enclosing except clause bound ("none" outside one), text the literal part
\* of the detail and carried the exception whose str() the detail holds.
RouteReply(failure, e, text, carried) ==
    /\ status' = StatusOf(failure)
    /\ rpc' = "done"
    /\ caught' = e
    /\ detail' = Some(<<text, carried>>)

\* Lines 323-343: the argument checks, the mission is read and measured.
RouteReadMission ==
    /\ rpc = "mission"
    /\ IF Len(cvs) = 0
       THEN /\ RouteReply("input", "none", "At least one CV file must be provided", "none")
            /\ UNCHANGED <<mission_text, idx>>
       ELSE IF IsNone(mission)
       THEN /\ RouteReply("input", "none", "A mission file must be provided", "none")
            /\ UNCHANGED <<mission_text, idx>>
       ELSE IF The(mission)[1]
       THEN /\ RouteReply("input", "none", "Empty mission file", "none")
            /\ UNCHANGED <<mission_text, idx>>
       ELSE \E f \in StreamFiles, env \in Envs :
              LET r == read_cv(f, env)
              IN  IF r.k # "ok"
                  THEN /\ RouteReply("input", r.k, "", r.k)
                       /\ UNCHANGED <<mission_text, idx>>
                  ELSE IF TooShort(r.v)
                  THEN /\ RouteReply("input", "none", "Mission text too short", "none")
                       /\ UNCHANGED <<mission_text, idx>>
                  ELSE /\ mission_text' = Some(r.v)
                       /\ idx' = 1
                       /\ rpc' = "loop"
                       /\ UNCHANGED <<status, caught, detail>>
    /\ UNCHANGED <<op, mission, cvs, summaries, compare_calls, file, extraction_status, structured_data>>
    /\ UNCHANGED <<entry, pc, cv_text, cv_file, cvs_summaries, client, llm_calls,
                   text_content, extracted_dict, raw_reply, validations, repairs,
                   origin, outcome, result, reader>>
    /\ UNCHANGED normVars

\* Lines 347-361: one turn of `for f in cvs` up to the await of the extraction.
\* (mission_text is the endpoint's local of that name; it is carried through
\* the extraction calls and handed to the compare call.)
RouteReadCvFile ==
    /\ rpc = "loop"
    /\ idx <= Len(cvs)
    /\ IF cvs[idx][1]
       THEN \* if not content: continue
            /\ idx' = idx + 1
            /\ UNCHANGED <<rpc, summaries>>
            /\ UNCHANGED engineVars
       ELSE \E f \in StreamFiles, env \in Envs :
              LET r == read_cv(f, env)
              IN  IF r.k # "ok"
                  THEN /\ summaries' = Append(summaries, Summary(idx, TRUE))
                       /\ idx' = idx + 1
                       /\ UNCHANGED rpc
                       /\ UNCHANGED engineVars
                  ELSE /\ \E c \in Scripts :
                            Enter("extract_structured_async", "get_text", Some(r.v),
                                  None, mission_text, <<>>, c)
                       /\ rpc' = "await_extract"
                       /\ UNCHANGED <<idx, summaries>>
    /\ UNCHANGED <<op, mission, cvs, compare_calls, status, file, extraction_status, structured_data,
                   caught, detail>>
    /\ UNCHANGED normVars

\* Lines 361-368: the extraction has ended; its Dossier or a placeholder is
\* appended.  Any other exception reaches the handler of line 381.
RouteCollect ==
    /\ rpc = "await_extract"
    /\ op = RouteOp
    /\ pc = "done"
    /\ IF outcome = "ok"
       THEN summaries' = Append(summaries, Summary(idx, FALSE))
       ELSE IF outcome = LLMExtractionError
       THEN summaries' = Append(summaries, Summary(idx, TRUE))
       ELSE UNCHANGED summaries
    /\ IF outcome \in {"ok", LLMExtractionError}
       THEN /\ idx' = idx + 1
            /\ rpc' = "loop"
            /\ UNCHANGED <<status, caught, detail>>
       ELSE /\ RouteReply("internal", outcome, "", outcome)
            /\ UNCHANGED idx
    /\ entry' = "none"
    /\ pc' = "idle"
    /\ UNCHANGED <<cv_text, cv_file, mission_text, cvs_summaries, client, llm_calls,
                   text_content, extracted_dict, raw_reply, validations, repairs,
                   origin, outcome, result, reader>>
    /\ UNCHANGED <<op, mission, cvs, compare_calls, file, extraction_status, structured_data>>
    /\ UNCHANGED normVars

\* Line 372: the compare call is issued after the loop.
RouteCompareInLoop ==
    /\ rpc = "loop"
    /\ idx >= Len(cvs)
    /\ \E c \in Scripts :
          Enter(CompareEntry, "compare_call", None, None, mission_text, summaries, c)
    /\ compare_calls' = compare_calls + 1
    /\ rpc' = "await_compare"
    /\ UNCHANGED <<op, mission, cvs, idx, summaries, status, file, extraction_status, structured_data,
                   caught, detail>>
    /\ UNCHANGED normVars

RouteCompare ==
    /\ rpc = "loop"
    /\ idx > Len(cvs)
    /\ \E c \in Scripts :
          Enter(CompareEntry, "compare_call", None, None, mission_text, summaries, c)
    /\ compare_calls' = compare_calls + 1
    /\ rpc' = "await_compare"
    /\ UNCHANGED <<op, mission, cvs, idx, summaries, status, file, extraction_status, structured_data,
                   caught, detail>>
    /\ UNCHANGED normVars

\* Lines 373-377: the ranking is returned, or LLMExtractionError becomes the
\* HTTPException of line 375 (any other exception that of line 384).
RouteFinish ==
    /\ rpc = "await_compare"
    /\ pc = "done"
    /\ IF outcome = "ok"
       THEN /\ status' = 200
            /\ rpc' = "done"
            /\ UNCHANGED <<caught, detail>>
       ELSE IF outcome = LLMExtractionError
       THEN RouteReply("internal", outcome, "LLM compare failed: ", outcome)
       ELSE RouteReply("internal", outcome, "", outcome)
    /\ UNCHANGED <<op, mission, cvs, idx, summaries, compare_calls, file,
                   extraction_status, structured_data>>
    /\ UNCHANGED <<engineVars, normVars>>

\* ----------------------------------------------------- the /extract endpoint
ExtractRouteOp == "extract_cv_data"

AcceptedTypes ==
    {"application/pdf",
     "application/vnd.openxmlformats-officedocument.wordprocessingml.document",
     "text/plain", "application/octet-stream"}

\* POST /extract with file.
StartExtractRoute(u) ==
    /\ op = "none"
    /\ op' = ExtractRouteOp
    /\ rpc' = "check"
    /\ file' = Some(u)
    /\ UNCHANGED <<mission, cvs, idx, summaries, compare_calls, status,
                   extraction_status, structured_data, caught, detail>>
    /\ UNCHANGED <<engineVars, normVars>>

\* Lines 104-134: the declared type and the content are checked and the
\* CVAnalysis record is created.
ExtractRouteCheck ==
    /\ rpc = "check"
    /\ IF The(file).content_type \notin AcceptedTypes
       THEN /\ RouteReply("input", "none", "Unsupported file type: ", "none")
            /\ UNCHANGED <<extraction_status, structured_data>>
       ELSE IF The(file).empty
       THEN /\ RouteReply("input", "none", "Empty file", "none")
            /\ UNCHANGED <<extraction_status, structured_data>>
       ELSE /\ extraction_status' = "pending"
            /\ structured_data' = None
            /\ rpc' = "read"
            /\ UNCHANGED <<status, caught, detail>>
    /\ UNCHANGED <<op, mission, cvs, idx, summaries, compare_calls, file>>
    /\ UNCHANGED <<engineVars, normVars>>

\* Line 142: read_cv(io.BytesIO(content)).  The leading bytes of the content
\* are drawn here; the declared type is not handed to read_cv.
ExtractRouteRead ==
    /\ rpc = "read"
    /\ entry' = "read_cv"
    /\ \E f \in StreamFiles, env \in Envs :
          LET r == read_cv(f, env)
          IN  /\ cv_file' = Some(f)
              /\ IF r.k = "ok" THEN Returned(r.v) ELSE Raised(r.k, r.k)
              /\ reader' = ReaderOf(f, env)
    /\ rpc' = "read_done"
    /\ UNCHANGED <<cv_text, mission_text, cvs_summaries, client, llm_calls,
                   text_content, extracted_dict, raw_reply, validations, repairs>>
    /\ UNCHANGED <<op, mission, cvs, idx, summaries, compare_calls, status, file,
                   extraction_status, structured_data, caught, detail>>
    /\ UNCHANGED normVars

\* The same step with the record left as it is when read_cv raises.
ExtractRouteExtractUnmarked ==
    /\ rpc = "read_done"
    /\ pc = "done"
    /\ IF outcome # "ok"
       THEN /\ UNCHANGED <<extraction_status, structured_data>>
            /\ RouteReply("input", outcome, "", outcome)
            /\ UNCHANGED engineVars
       ELSE IF TooShort(The(result))
       THEN /\ extraction_status' = "failed"
            /\ UNCHANGED structured_data
            /\ RouteReply("input", "none", "CV text too short", "none")
            /\ UNCHANGED engineVars
       ELSE /\ \E c \in Scripts :
                 Enter("extract_structured_async", "get_text", result, None, None,
                       <<>>, c)
            /\ rpc' = "await_extract"
            /\ UNCHANGED <<status, extraction_status, structured_data, caught, detail>>
    /\ UNCHANGED <<op, mission, cvs, idx, summaries, compare_calls, file>>
    /\ UNCHANGED normVars

\* Lines 143-173: a CVExtractionError or a text that is too short marks the
\* record failed and answers; otherwise extract_from_text_async(cv_text) is
\* awaited.
ExtractRouteExtract ==
    /\ rpc = "read_done"
    /\ pc = "done"
    /\ IF outcome # "ok"
       THEN /\ extraction_status' = "failed"
            /\ UNCHANGED structured_data
            /\ RouteReply("input", outcome, "", outcome)
            /\ UNCHANGED engineVars
       ELSE IF TooShort(The(result))
       THEN /\ extraction_status' = "failed"
            /\ UNCHANGED structured_data
            /\ RouteReply("input", "none", "CV text too short", "none")
            /\ UNCHANGED engineVars
       ELSE /\ \E c \in Scripts :
                 Enter("extract_structured_async", "get_text", result, None, None,
                       <<>>, c)
            /\ rpc' = "await_extract"
            /\ UNCHANGED <<status, extraction_status, structured_data, caught, detail>>
    /\ UNCHANGED <<op, mission, cvs, idx, summaries, compare_calls, file>>
    /\ UNCHANGED normVars

\* Lines 173-217: the Dossier is stored and returned, or the record is marked
\* failed and the exception becomes an HTTPException.
ExtractRouteFinish ==
    /\ rpc = "await_extract"
    /\ op = ExtractRouteOp
    /\ pc = "done"
    /\ IF outcome = "ok"
       THEN /\ extraction_status' = "completed"
            /\ structured_data' = result
            /\ status' = 200
            /\ rpc' = "done"
            /\ UNCHANGED <<caught, detail>>
       ELSE IF outcome = LLMExtractionError
       THEN /\ extraction_status' = "failed"
            /\ UNCHANGED structured_data
            /\ RouteReply("internal", outcome, "Extraction failed: ", outcome)
       ELSE /\ extraction_status' = "failed"
            /\ UNCHANGED structured_data
            /\ RouteReply("internal", outcome, "Internal extraction error", "none")
    /\ UNCHANGED <<op, mission, cvs, idx, summaries, compare_calls, file>>
    /\ UNCHANGED <<engineVars, normVars>>

\* ------------------------------------------------------------ normalizer.py
\* A function of the normalizer is called from outside and returns.
NormCall(fn, a, value) ==
    /\ op = "none"
    /\ op' = fn
    /\ entry' = fn
    /\ args' = a
    /\ UNCHANGED <<libs, analyses, stats, oauth_states, issued, callbacks>>
    /\ Returned(value)
    /\ UNCHANGED <<cv_text, cv_file, mission_text, cvs_summaries, client, llm_calls,
                   text_content, extracted_dict, raw_reply, validations, repairs,
                   reader>>
    /\ UNCHANGED routeVars

NormalizeDateRange(date_range, env) ==
    NormCall("normalize_date_range", <<date_range, env>>,
             normalize_date_range(date_range, env))

NormalizeLanguageLevel(level) ==
    NormCall("normalize_language_level", <<level>>, normalize_language_level(level))

CalculateYearsExperience(experiences, env) ==
    NormCall("calculate_years_experience", <<experiences, env>>,
             calculate_years_experience(experiences, env))

NormalizeExtractedData(data, env) ==
    NormCall("normalize_extracted_data", <<data, env>>,
             normalize_extracted_data(data, env))

\* ------------------------------------- GET /stats beside concurrent extracts
\* Lines 121-134 of extract_cv_data, in one of the user's requests: the row is
\* committed with extraction_status "pending".
CreateAnalysis(r) ==
    /\ op \in {"none", "get_user_cv_stats"}
    /\ op' = "get_user_cv_stats"
    /\ analyses[r] = "none"
    /\ \A q \in 1..(r - 1) : analyses[q] # "none"
    /\ analyses' = [analyses EXCEPT ![r] = "pending"]
    /\ UNCHANGED <<args, libs, stats, oauth_states, issued, callbacks>>
    /\ UNCHANGED <<engineVars, routeVars>>

\* Lines 146-215 of extract_cv_data: the request commits the status it ends with.
FinishAnalysis(r, s) ==
    /\ op = "get_user_cv_stats"
    /\ analyses[r] = "pending"
    /\ analyses' = [analyses EXCEPT ![r] = s]
    /\ UNCHANGED <<op, args, libs, stats, oauth_states, issued, callbacks>>
    /\ UNCHANGED <<engineVars, routeVars>>

\* get_user_cv_stats awaits three SELECT statements one after the other, each
\* reading the rows committed when it runs; the answer is computed from the
\* three counts right after the third.
StatsQuery ==
    /\ op \in {"none", "get_user_cv_stats"}
    /\ op' = "get_user_cv_stats"
    /\ stats.pc # "done"
    /\ LET count(S) == Cardinality({r \in DOMAIN analyses : analyses[r] \in S})
       IN  stats' =
             IF stats.pc = "idle"
             THEN [stats EXCEPT !.pc = "total",
                      !.total_analyses = count({"pending", "completed", "failed"})]
             ELSE IF stats.pc = "total"
             THEN [stats EXCEPT !.pc = "successful",
                      !.successful_analyses = count({"completed"})]
             ELSE [stats EXCEPT !.pc = "done",
                      !.failed_analyses = count({"failed"}),
                      !.pending_analyses = stats.total_analyses
                            - stats.successful_analyses - count({"failed"})]
    /\ UNCHANGED <<args, libs, analyses, oauth_states, issued, callbacks>>
    /\ UNCHANGED <<engineVars, routeVars>>

\* --------------------------------------------------------- routes/auth.py
\* GET /auth/login: the state is stored once the authorization URL is built;
\* a service that is not configured or that raises answers 500 and stores
\* nothing.
Login(s, built) ==
    /\ op \in {"none", "oauth"}
    /\ op' = "oauth"
    /\ issued["s1"] + issued["s2"] < MaxRequests
    /\ IF built
       THEN /\ oauth_states' = oauth_states \cup {s}
            /\ issued' = [issued EXCEPT ![s] = @ + 1]
       ELSE UNCHANGED <<oauth_states, issued>>
    /\ UNCHANGED <<args, libs, analyses, stats, callbacks>>
    /\ UNCHANGED <<engineVars, routeVars>>

\* The same check with the state left in the dict.
CallbackCheckKeeps(c, s) ==
    /\ op \in {"none", "oauth"}
    /\ op' = "oauth"
    /\ callbacks[c].pc = "idle"
    /\ \A b \in 1..(c - 1) : callbacks[b].pc # "idle"
    /\ IF s \notin oauth_states
       THEN /\ callbacks' = [callbacks EXCEPT ![c] = [@ EXCEPT !.pc = "done", !.state = s]]
            /\ UNCHANGED oauth_states
       ELSE /\ oauth_states' = oauth_states
            /\ callbacks' = [callbacks EXCEPT ![c] =
                                [@ EXCEPT !.pc = "exchange", !.state = s, !.accepted = TRUE]]
    /\ UNCHANGED <<args, libs, analyses, stats, issued>>
    /\ UNCHANGED <<engineVars, routeVars>>

\* GET /auth/callback, lines 67-73: with no await between them, the state is
\* looked up and deleted; an unknown state raises the HTTPException that the
\* handler of line 132 turns into the error redirect.
CallbackCheck(c, s) ==
    /\ op \in {"none", "oauth"}
    /\ op' = "oauth"
    /\ callbacks[c].pc = "idle"
    /\ \A b \in 1..(c - 1) : callbacks[b].pc # "idle"
    /\ IF s \notin oauth_states
       THEN /\ callbacks' = [callbacks EXCEPT ![c] = [@ EXCEPT !.pc = "done", !.state = s]]
            /\ UNCHANGED oauth_states
       ELSE /\ oauth_states' = oauth_states \ {s}
            /\ callbacks' = [callbacks EXCEPT ![c] =
                                [@ EXCEPT !.pc = "exchange", !.state = s, !.accepted = TRUE]]
    /\ UNCHANGED <<args, libs, analyses, stats, issued>>
    /\ UNCHANGED <<engineVars, routeVars>>

\* Lines 75-130: complete_oauth_callback is awaited; its answer sets the
\* session cookie, its exception ends in the error redirect.
CallbackExchange(c, exchanged) ==
    /\ op = "oauth"
    /\ callbacks[c].pc = "exchange"
    /\ callbacks' = [callbacks EXCEPT ![c] = [@ EXCEPT !.pc = "done", !.session = exchanged]]
    /\ UNCHANGED <<op, args, libs, analyses, stats, oauth_states, issued>>
    /\ UNCHANGED <<engineVars, routeVars>>

\* ----------------------------------------------------------- specification
Next ==
    \/ \E f \in Files : ReadCv(f)
    \/ \E e \in ExtractEntries, c \in Scripts,
          a \in {<<Some(t), None>> : t \in Texts}
                   \cup {<<None, Some(f)>> : f \in Files}
                   \cup {<<None, None>>} :
          StartExtract(e, a[1], a[2], c)
    \/ GetText
    \/ CallCompletion
    \/ Validate
    \/ RepairPass
    \/ Revalidate
    \/ \E m \in Texts, c \in Scripts,
          s \in UNION {{[i \in 1..n |-> Summary(i, ph[i])] : ph \in [1..n -> BOOLEAN]} :
                          n \in 0..MaxCvs} :
          StartCompare(m, s, c)
    \/ CompareCall
    \/ CompareParse
    \/ \E m \in {None} \cup {Some(u) : u \in {<<TRUE>>, <<FALSE>>}}, fs \in UNION {[1..n -> {<<TRUE>>, <<FALSE>>}] : n \in 0..MaxCvs} :
          StartRoute(m, fs)
    \/ RouteReadMission
    \/ RouteReadCvFile
    \/ RouteCollect
    \/ RouteCompare
    \/ RouteFinish
    \/ \E u \in [content_type : AcceptedTypes \cup {"image/png"}, empty : BOOLEAN] :
          StartExtractRoute(u)
    \/ ExtractRouteCheck
    \/ ExtractRouteRead
    \/ ExtractRouteExtract
    \/ ExtractRouteFinish
    \/ \E env \in DateutilEnvs,
          d \in { Chars("2022-03 → 2023-02"), Chars("03/2022 → 02/2023"),
               Chars("mars 2022 → février 2023"), Chars("2022 → 2023"), Chars("2022-2023"),
               Chars("du 03/2022 - 02/2023 (CDI)"), Chars("Jan 2022 - Feb 2023"),
               Chars("foo 2022 → bar 2023 - x"), Chars("2022 to 2023"),
               Chars("Jan 5 2022 to Feb 7 2023"),
               Chars("depuis 2022"), Chars("n/a"), <<>> } :
          NormalizeDateRange(d, env)
    \/ \E l \in { Chars("A1"), Chars("a2"), Chars("b1"), Chars(" B2 "), Chars("c1"), Chars("avancé"),
               Chars("C2"), Chars("native"), Chars("Natif"), Chars("beginner"),
               Chars("intermediate"), Chars("advanced"), Chars("fluent"), Chars("courant"),
               Chars("Bilingue"), Chars("langue maternelle"), Chars("expert"), Chars("c3"),
               <<>> } :
          NormalizeLanguageLevel(l)
    \* the duration_text of the key experiences of one Dossier
    \/ \E env \in DateutilEnvs,
          x \in { <<>>,
               <<Chars("2 ans"), Chars("18 mois")>>,
               <<Chars("1 an")>>,
               <<Chars("3 ans"), <<>>, Chars("2 ans")>>,
               <<Chars("2 years 6 months")>>,
               <<Chars("6 mois")>>,
               <<Chars("2 yrs"), Chars("5 ANS")>>,
               <<Chars("2020 - 2022")>>,
               <<Chars("2021 → present")>>,
               <<Chars("longue mission")>> } :
          CalculateYearsExperience(x, env)
    \/ \E data \in ExtractedInputs, env \in DateutilEnvs : NormalizeExtractedData(data, env)
    \/ \E r \in 1..MaxRequests : CreateAnalysis(r)
    \/ \E r \in 1..MaxRequests, s \in {"completed", "failed"} : FinishAnalysis(r, s)
    \/ StatsQuery
    \/ \E s \in {"s1", "s2"}, built \in BOOLEAN : Login(s, built)
    \/ \E c \in 1..MaxRequests, s \in {"s1", "s2"} : CallbackCheck(c, s)
    \/ \E c \in 1..MaxRequests, exchanged \in BOOLEAN : CallbackExchange(c, exchanged)

Spec == Init /\ [][Next]_vars

\* ------------------------------------------------------------------ claims
Done(e) == pc = "done" /\ entry = e

ExtractDone == pc = "done" /\ entry \in ExtractEntries

FailsTwiceThenSucceeds(c) == c[1] = "fail" /\ c[2] = "fail" /\ c[3] = "ok"

AllAttemptsFailed == llm_calls >= 1 /\ \A i \in 1..llm_calls : client[i] = "fail"

\* C1: when the completion service fails on the first two attempts of an
\* extract or compare call and would answer the third, the call makes the
\* third attempt, receives that answer and, the answer being schema-valid,
\* returns it instead of raising.
C1_ThirdAttemptIsMade ==
    (/\ pc = "done"
     /\ entry \in ExtractEntries \cup {CompareEntry}
     /\ llm_calls >= 1
     /\ FailsTwiceThenSucceeds(client))
    => /\ llm_calls = 3
       /\ (entry \in ExtractEntries /\ ~IsNone(extracted_dict)
              /\ ValidDossier(The(extracted_dict))) => outcome = "ok"
       /\ (entry = CompareEntry /\ ~IsNone(raw_reply) /\ Parses(The(raw_reply))
              /\ ValidCompareResults(The(raw_reply))) => outcome = "ok"
       /\ (entry \in ExtractEntries) => ~IsNone(extracted_dict)
       /\ (entry = CompareEntry) => ~IsNone(raw_reply)

\* C2: one extract or compare call invokes the completion service at most 3
\* times, and a call all of whose attempts failed ends with
\* LLMExtractionError.
C2_AtMostThreeInvocations ==
    /\ llm_calls <= 3
    /\ (pc = "done" /\ entry \in ExtractEntries \cup {CompareEntry} /\ AllAttemptsFailed)
          => outcome = LLMExtractionError

\* a synchronous extraction whose three attempts failed stops there although
\* a fourth attempt would have been answered
C2_Witness ==
    /\ Done("extract_structured")
    /\ llm_calls = 3
    /\ AllAttemptsFailed
    /\ client[4] = "ok"
    /\ outcome = LLMExtractionError

FirstValidationFailed == validations >= 1 /\ ~(validations = 1 /\ outcome = "ok")

\* C3: in both extract entry points a first validation failure is followed by
\* exactly one repair pass and exactly one re-validation; the call returns
\* the repaired data when it validates and raises LLMExtractionError only
\* when it does not.
C3_RepairOnceThenRevalidate ==
    (ExtractDone /\ FirstValidationFailed)
    => /\ repairs = 1
       /\ validations = 2
       /\ outcome \in {"ok", LLMExtractionError}
       /\ outcome = "ok" <=> ValidDossier(The(extracted_dict))

\* C4: an extract call given a text of trimmed length below 50 never invokes
\* the completion service and ends with LLMExtractionError.
C4_ShortTextNoCall ==
    (/\ entry \in ExtractEntries
     /\ ~IsNone(cv_text)
     /\ Len_(strip(The(cv_text))) < MIN_TEXT_LEN)
    => /\ llm_calls = 0
       /\ pc # "call"
       /\ pc = "done" => outcome = LLMExtractionError

\* a text of 50 characters of which 49 remain after trimming was refused
C4_Witness ==
    /\ ExtractDone
    /\ cv_text = Some([pad |-> 1, body |-> MIN_TEXT_LEN - 1])
    /\ outcome = LLMExtractionError
    /\ llm_calls = 0

\* C5: a compare call whose mission text has trimmed length below 50 never
\* invokes the completion service and ends with an error.
C5_ShortMissionNoCall ==
    (/\ entry = CompareEntry
     /\ ~IsNone(mission_text)
     /\ Len_(strip(The(mission_text))) < MIN_TEXT_LEN)
    => /\ llm_calls = 0
       /\ pc = "done" => outcome # "ok"

ScoreInRange(it) == it.score >= 0 /\ it.score <= 100

\* C6: a successful compare call given N summaries returns exactly N entries,
\* each with a score in [0,100].
C6_RankingComplete ==
    (Done(CompareEntry) /\ outcome = "ok")
    => /\ Len(The(result)) = Len(cvs_summaries)
       /\ \A i \in 1..Len(The(result)) : ScoreInRange(The(result)[i])

\* C7: the cvs_summaries the ranking workflow passes to the compare call hold
\* exactly one entry per submitted CV file, under its filename.
C7_OneSummaryPerFile ==
    (op = RouteOp /\ compare_calls >= 1)
    => /\ Len(cvs_summaries) = Len(cvs)
       /\ \A i \in 1..Len(cvs) :
             Cardinality({j \in 1..Len(cvs_summaries) : cvs_summaries[j].filename = i}) = 1

WithinListBounds(it) ==
    /\ it.strengths >= 1
    /\ it.strengths <= 5
    /\ it.weaknesses >= 0
    /\ it.weaknesses <= 5

Acceptable(reply) ==
    /\ ValidCompareResults(reply)
    /\ \A i \in 1..Len(reply.results) :
          ScoreInRange(reply.results[i]) /\ WithinListBounds(reply.results[i])

\* C8: a parsed ranking reply is accepted only if every entry has a score in
\* [0,100], 1 to 5 strengths and 0 to 5 weaknesses; any other reply makes
\* compare raise LLMExtractionError, and no repair is attempted.
C8_RankingBoundsEnforced ==
    (Done(CompareEntry) /\ ~IsNone(raw_reply) /\ Parses(The(raw_reply)))
    => /\ outcome = "ok" => Acceptable(The(raw_reply))
       /\ ~Acceptable(The(raw_reply)) => outcome = LLMExtractionError
       /\ repairs = 0

\* C9: a document-read error raised while extract reads its file, and an
\* LLMExtractionError raised by the completion step, leave extract with the
\* type they were raised with.
C9_ErrorTypesPropagate ==
    ExtractDone
    => /\ origin = CVExtractionError => outcome = CVExtractionError
       /\ origin = LLMExtractionError => outcome = LLMExtractionError

\* C10: read_cv either returns a text of trimmed length at least 50 or raises
\* CVExtractionError and returns nothing, on every dispatch path.
C10_ReadCvMinimum ==
    Done("read_cv")
    => \/ /\ outcome = "ok"
          /\ ~IsNone(result)
          /\ Len_(strip(The(result))) >= MIN_TEXT_LEN
       \/ /\ outcome = CVExtractionError
          /\ IsNone(result)

\* a PDF given as bytes was read through the PyPDF2 fallback
C10_Witness ==
    /\ Done("read_cv")
    /\ reader = "_read_pdf_bytes/PyPDF2"
    /\ outcome = "ok"

\* C11: every Dossier a successful extract returns holds exactly 5 key
\* experiences, in the order the reply gave them.
C11_FiveKeyExperiences ==
    (ExtractDone /\ outcome = "ok")
    => LET got == Val(Val(The(result)).experiences_cles_recentes)
           cles == Val(The(extracted_dict)).experiences_cles_recentes
           given == IF Kind(cles) = "absent" THEN <<>> ELSE Val(cles)
       IN  /\ Len(got) = 5
           /\ Len(got) = Len(given)
           /\ \A i \in 1..Len(got) : got[i] = ExperienceCleRecente(given[i])

AllCategoriesListed(t) ==
    /\ Kind(t) = "dict"
    /\ \A k \in TechKeys : Kind(Val(t)[k]) = "list"

\* C12: in every Dossier that passed validation, at once or after the repair
\* pass, each of the 9 technical-skill categories is a list (possibly empty),
\* never absent and never null, at the top level and in the
\* environnement_technique of every detailed experience.
C12_CategoriesAlwaysLists ==
    (ExtractDone /\ outcome = "ok")
    => LET dossier == Val(The(result))
           pros == Val(dossier.experiences_professionnelles)
       IN  /\ AllCategoriesListed(dossier.competences_techniques)
           /\ \A i \in 1..Len(pros) :
                 AllCategoriesListed(Val(pros[i]).environnement_technique)

\* a reply that left categories out, at the top level and in its detailed
\* experiences, was returned after the repair pass
C12_Witness ==
    /\ ExtractDone
    /\ outcome = "ok"
    /\ repairs = 1
    /\ raw_reply = Some(SparseReply)

RepairPassRan ==
    /\ entry = "extract_structured_async"
    /\ repairs = 1
    /\ pc = "revalidate" \/ (pc = "done" /\ validations = 2)

\* C13: applying the repair pass to data it has already repaired yields the
\* same data.
C13_RepairIdempotent ==
    RepairPassRan => Repair(The(extracted_dict)) = [k |-> "ok", v |-> The(extracted_dict)]

\* the pass changed a reply with a header field given as a list and a single
\* key experience given outside a list
C13_Witness ==
    /\ RepairPassRan
    /\ extracted_dict # raw_reply
    /\ Kind(Val(The(raw_reply)).experiences_cles_recentes) = "dict"
    /\ Kind(Val(The(raw_reply)).entete) = "dict"
    /\ Kind(Val(Val(The(raw_reply)).entete).prenom) = "list"

\* the months a duration text states, each unit counted once: the first year
\* pattern that matches and the first month pattern that matches
RECURSIVE FirstMatch(_, _, _)
FirstMatch(patterns, text, factor) ==
    IF patterns = <<>> THEN 0
    ELSE LET m == re_search(Head(patterns), text)
         IN  IF ~IsNone(m) THEN ToInt(The(m)[1]) * factor
             ELSE FirstMatch(Tail(patterns), text, factor)

StatedMonths(text) ==
    FirstMatch(year_patterns, lower(text), 12) + FirstMatch(month_patterns, lower(text), 1)

RECURSIVE StatedTotal(_)
StatedTotal(experiences) ==
    IF experiences = <<>> THEN 0
    ELSE StatedMonths(Head(experiences)) + StatedTotal(Tail(experiences))

\* C14: when the years-of-experience figure of the data is <= 0, the derived
\* figure is the sum over the key experiences of the months each duration
\* text states, counted once per experience, divided by 12 and rounded:
\* "2 ans" and "18 mois" give 4.
C14_YearsFromDurations ==
    (/\ Done("normalize_extracted_data")
     /\ args[1].years_experience <= 0
     /\ \A i \in 1..Len(args[1].experiences_key) :
           StatedMonths(args[1].experiences_key[i]) > 0)
    => /\ PyRound12(StatedTotal(args[1].experiences_key)) > 0
          => The(result).years_experience = PyRound12(StatedTotal(args[1].experiences_key))
       /\ args[1].experiences_key = <<Chars("2 ans"), Chars("18 mois")>>
          => The(result).years_experience = 4

\* C15: after normalize_extracted_data every one of the 9 technical-skill
\* categories is still a list of strings under its schema name, and no
\* attribute outside the 9 schema names has been written.
C15_CategoriesKeptAsLists ==
    Done("normalize_extracted_data")
    => LET technical == The(result).skills.technical
       IN  /\ \A k \in TechKeys :
                 /\ Kind(technical[k]) = "list"
                 /\ \A i \in 1..Len(Val(technical[k])) : Kind(Val(technical[k])[i]) = "str"
           /\ \A a \in TechAttrs \ TechKeys : Kind(technical[a]) = "absent"

Replied == rpc = "done" /\ op \in {RouteOp, ExtractRouteOp}

\* the read of the uploaded CV (extract endpoint) or of the mission file
\* (compare endpoint) raised
DocumentReadFailed ==
    \/ op = ExtractRouteOp /\ entry = "read_cv" /\ outcome = CVExtractionError
    \/ op = RouteOp /\ caught = CVExtractionError

\* the extraction (extract endpoint) or the final compare call (compare
\* endpoint) raised LLMExtractionError
LLMCallFailed ==
    \/ op = ExtractRouteOp /\ entry = "extract_structured_async"
          /\ outcome = LLMExtractionError
    \/ op = RouteOp /\ entry = CompareEntry /\ outcome = LLMExtractionError

Canonical == Chars("2022-03 → 2023-02")

\* none of the four shapes occurs in the text (a month-name range counts
\* when both names are known month names)
NoShape(date_range) ==
    /\ IsNone(re_search(date_patterns[1], date_range))
    /\ IsNone(re_search(date_patterns[2], date_range))
    /\ IsNone(MonthNameBranch(date_range))
    /\ IsNone(re_search(date_patterns[4], date_range))

\* the text is "YYYY → YYYY" and nothing else
BareYears(date_range) ==
    /\ Len(date_range) = 11
    /\ ~IsNone(MatchTokens(date_patterns[4], date_range, 1))

\* the text splits at exactly one range separator into two parts that
\* dateutil both parses
SplitsAndParses(date_range, env) ==
    LET parts == re_split(date_range, 0)
    IN  /\ Len(parts) = 2
        /\ ~IsNone(parse_date(StripStr(parts[1]), env.start, env.today))
        /\ ~IsNone(parse_date(StripStr(parts[2]), env.end, env.today))

ExamplesNormalized ==
    /\ args[1] \in {Chars("2022-03 → 2023-02"), Chars("03/2022 → 02/2023"),
                    Chars("mars 2022 → février 2023")}
          => The(result) = Canonical
    /\ BareYears(args[1])
          => The(result) = DateRange(SubSeq(args[1], 1, 4), Chars("01"),
                                     SubSeq(args[1], 8, 11), Chars("12"))

\* C17 (as stated): normalize_date_range returns "2022-03 → 2023-02" for
\* "2022-03 → 2023-02", "03/2022 → 02/2023" and "mars 2022 → février 2023",
\* rewrites a bare "YYYY → YYYY" to the canonical "YYYY-MM → YYYY-MM" form,
\* and returns every input that matches no recognized shape verbatim.
C17_UnrecognizedVerbatim ==
    Done("normalize_date_range")
    => /\ ExamplesNormalized
       /\ NoShape(args[1]) => The(result) = args[1]

\* C17 (amended): the same, except that an input in which no recognized
\* shape occurs is returned verbatim unless it splits at exactly one
\* separator into two parts that dateutil both parses; it is then rewritten
\* to the "YYYY-MM → YYYY-MM" of the parsed dates.
C17_VerbatimUnlessDateutilParses ==
    Done("normalize_date_range")
    => /\ ExamplesNormalized
       /\ (NoShape(args[1]) /\ ~SplitsAndParses(args[1], args[2]))
             => The(result) = args[1]
       /\ (NoShape(args[1]) /\ SplitsAndParses(args[1], args[2]))
             => /\ Len(The(result)) = Len(Canonical)
                /\ ~IsNone(MatchTokens(date_patterns[1], The(result), 1))

\* "03/2022 → 02/2023" was rewritten, and "n/a" is the kind of input that
\* comes back verbatim
C17_Witness ==
    /\ Done("normalize_date_range")
    /\ args[1] = Chars("03/2022 → 02/2023")
    /\ The(result) = Canonical

Key(level) == StripStr(lower(level))

\* C18: normalize_language_level maps every input to exactly one of the four
\* canonical levels (debutant = beginner, intermediaire = intermediate,
\* courant = advanced, bilingue = native): a1/a2 to beginner, b1/b2 to
\* intermediate, c1 and "avancé" to advanced, c2 and "native" to native, and
\* every input that is in no table entry to intermediate.
C18_FourLevels ==
    Done("normalize_language_level")
    => /\ The(result) \in DirectLevels
       /\ Key(args[1]) \in {Chars("a1"), Chars("a2")} => The(result) = Chars("debutant")
       /\ Key(args[1]) \in {Chars("b1"), Chars("b2")}
             => The(result) = Chars("intermediaire")
       /\ Key(args[1]) \in {Chars("c1"), Chars("avancé")} => The(result) = Chars("courant")
       /\ Key(args[1]) \in {Chars("c2"), Chars("native")} => The(result) = Chars("bilingue")
       /\ Key(args[1]) \notin DirectLevels \cup {p[1] : p \in level_map}
             => The(result) = Chars("intermediaire")

\* "expert", which no table entry holds, came back as intermediaire
C18_Witness ==
    /\ Done("normalize_language_level")
    /\ args[1] = Chars("expert")
    /\ The(result) = Chars("intermediaire")

PdfReaders == {"_read_pdf_bytes", "_read_pdf_bytes/PyPDF2"}

\* C19: a byte stream that begins with %PDF is handled by the PDF reader and
\* one that begins with PK by the DOCX reader, whatever content type was
\* declared for it; every other stream is decoded as text; exactly one of
\* the three readers handles a stream.
C19_SniffedDispatch ==
    (~IsNone(cv_file) /\ The(cv_file).how = "stream" /\ entry = "read_cv" /\ pc = "done")
    => /\ The(cv_file).sig = "%PDF" => reader \in PdfReaders
       /\ The(cv_file).sig = "PK" => reader = "_read_docx_filelike"
       /\ The(cv_file).sig \notin {"%PDF", "PK"} => reader = "_read_txt_bytes"
       /\ reader \in PdfReaders \cup {"_read_docx_filelike", "_read_txt_bytes"}

\* an upload declared text/plain whose content begins with %PDF was read by
\* the PDF reader
C19_Witness ==
    /\ op = ExtractRouteOp
    /\ The(file).content_type = "text/plain"
    /\ entry = "read_cv"
    /\ pc = "done"
    /\ The(cv_file).sig = "%PDF"
    /\ reader = "_read_pdf_bytes"
    /\ outcome = "ok"

\* a key that b lacks wherever a lacks it, through dicts and lists of the
\* same shape
RECURSIVE AbsentKept(_, _)
AbsentKept(a, b) ==
    IF Kind(a) = "absent" THEN Kind(b) = "absent"
    ELSE IF Kind(a) = "dict" /\ Kind(b) = "dict"
    THEN \A k \in DOMAIN Val(a) : AbsentKept(Val(a)[k], Val(b)[k])
    ELSE IF Kind(a) = "list" /\ Kind(b) = "list" /\ Len(Val(a)) = Len(Val(b))
    THEN \A i \in 1..Len(Val(a)) : AbsentKept(Val(a)[i], Val(b)[i])
    ELSE TRUE

\* the characters of the strings and numbers a JSON value holds
RECURSIVE LeafChars(_)
LeafChars(x) ==
    IF Kind(x) = "str" THEN {Val(x)[i] : i \in 1..Len(Val(x))}
    ELSE IF Kind(x) = "num" THEN {ToString(Val(x))}
    ELSE IF Kind(x) = "list" THEN UNION {LeafChars(Val(x)[i]) : i \in 1..Len(Val(x))}
    ELSE IF Kind(x) = "dict" THEN UNION {LeafChars(Val(x)[k]) : k \in DOMAIN Val(x)}
    ELSE {}

Wrapped(x) == IF Kind(x) = "dict" THEN JList(<<x>>) ELSE x

\* C21: after the repair pass a detailed-experience value that arrived as one
\* object outside a list is the one-element list holding it, and in every
\* experience record, key or detailed, a responsibilities field that arrived
\* as one newline-delimited string is the list of its non-blank lines.
C21_ExperiencesReshaped ==
    RepairPassRan
    => \A k \in {"experiences_cles_recentes", "experiences_professionnelles"} :
          LET before == Wrapped(Val(The(raw_reply))[k])
              after == Val(The(extracted_dict))[k]
          IN  Kind(before) = "list"
              => /\ Kind(after) = "list"
                 /\ Len(Val(after)) = Len(Val(before))
                 /\ \A i \in 1..Len(Val(before)) :
                       LET ex == Val(before)[i]
                       IN  (Kind(ex) = "dict" /\ Kind(Val(ex).responsabilites) = "str")
                           => Val(Val(after)[i]).responsabilites
                                = JList(NonBlankLines(
                                      SplitLines(Val(Val(ex).responsabilites), <<>>)))

\* C22: whatever the parsed reply is, the repair pass completes: once the
\* first validation has failed, extract fails only in the re-validation.
C22_RepairNeverRaises ==
    (Done("extract_structured_async") /\ validations >= 1 /\ outcome # "ok")
    => (repairs = 1 /\ validations = 2)

\* C23: a ranking request sends at most one compare call, and exactly one
\* once its loop over the CVs has ended; when the call is issued the
\* extraction of every submitted CV that has content has ended (its Dossier or
\* its placeholder is in the summaries) and no extraction runs or starts
\* afterwards; the compare engine invokes the completion service once.
C23_OneCompareAfterAllExtractions ==
    op = RouteOp
    => /\ compare_calls <= 1
       /\ (rpc \in {"await_compare", "done"} /\ idx > Len(cvs)) <=> compare_calls = 1
       /\ compare_calls = 1
             => /\ entry \notin ExtractEntries
                /\ Len(summaries) = Cardinality({i \in 1..Len(cvs) : ~cvs[i][1]})
                /\ cvs_summaries = summaries
                /\ llm_calls <= 1

\* a request with two CVs, both with content, was answered with the ranking
C23_Witness ==
    /\ op = RouteOp
    /\ rpc = "done"
    /\ status = 200
    /\ cvs = <<<<FALSE>>, <<FALSE>>>>
    /\ Len(summaries) = 2
    /\ compare_calls = 1
    /\ llm_calls = 1

\* read_cv was called on its own and took a PDF reader
PdfRead ==
    /\ op = "read_cv"
    /\ pc = "done"
    /\ reader \in PdfReaders \cup {"_read_pdf"}

\* C24: on both PDF paths, when the text extraction of a page fails, the text
\* recovered from the other pages is returned provided it has the 50
\* characters.
C24_FailingPageSkipped ==
    (PdfRead /\ The(libs).p.k = "pages"
        /\ Len_(strip(The(libs).p.v)) >= MIN_TEXT_LEN)
    => /\ outcome = "ok"
       /\ result = Some(strip(The(libs).p.v))

\* C25: for a PDF read from bytes the secondary library is tried exactly when
\* the primary library failed to process the document; a PDF from which the
\* primary library extracted fewer than 50 characters is rejected, and so is
\* one on which both libraries fail.
C25_FallbackOnLibraryFailure ==
    (PdfRead /\ reader # "_read_pdf")
    => LET primary == The(libs).p
           secondary == The(libs).s
       IN  /\ reader = "_read_pdf_bytes/PyPDF2" <=> primary.k = "raise"
           /\ (primary.k # "raise" /\ Len_(strip(primary.v)) < MIN_TEXT_LEN)
                 => outcome = CVExtractionError
           /\ (primary.k = "raise" /\ (secondary.k = "raise" \/ ~The(libs).pypdf2))
                 => outcome = CVExtractionError

\* the reply is prose without '{' followed by the text of a JSON object
ProseThenObject(text) ==
    \E n \in 1..Len(text) :
        /\ \A i \in 1..n : text[i] = "p"
        /\ SubSeq(text, n + 1, Len(text)) = <<"{", "}">>

\* the text from the first '{' of the reply on, <<>> when it has none
FromFirstBrace(text) ==
    IF \A i \in 1..Len(text) : text[i] # "{" THEN <<>>
    ELSE SubSeq(text, CHOOSE i \in 1..Len(text) :
                          text[i] = "{" /\ \A j \in 1..(i - 1) : text[j] # "{",
                Len(text))

\* C26: a compare reply that is not JSON as a whole is parsed from its first
\* '{': prose without '{' followed by a JSON object is accepted and goes to
\* validation, and a reply without '{', or whose text from the first '{' is
\* not JSON either, makes compare raise LLMExtractionError.
C26_ParseFromFirstBrace ==
    (Done(CompareEntry) /\ ~IsNone(raw_reply)
        /\ The(raw_reply).text # <<"{", "}">>)
    => LET reply == The(raw_reply)
       IN  /\ ProseThenObject(reply.text)
                 => /\ validations = 1
                    /\ outcome = "ok" <=> ValidCompareResults(reply)
                    /\ outcome = "ok" => result = Some(reply.results)
           /\ FromFirstBrace(reply.text) # <<"{", "}">>
                 => /\ validations = 0
                    /\ outcome = LLMExtractionError

\* leading prose and then a valid ranking: the ranking was returned
C26_Witness ==
    /\ Done(CompareEntry)
    /\ ~IsNone(raw_reply)
    /\ The(raw_reply).text = <<"p", "p", "{", "}">>
    /\ outcome = "ok"
    /\ result = Some(<<GoodItem>>)

\* ---------------------------------------------------------------------- C27
\* The end of the call in the current state, and the ends the two entry points
\* reach with the service script of the call and a reply: the reply of the
\* call when it got one, any reply otherwise.
CallEnd == <<llm_calls, outcome, result>>

RepliesOfCall == IF IsNone(raw_reply) THEN Replies ELSE {The(raw_reply)}

EndOf(e, reply) ==
    IF e = "extract_structured"
    THEN extract_structured(client, reply)
    ELSE extract_structured_async(client, reply)

\* The two operators above say what the actions do: every finished call that
\* reached the service ends as the operator of its own entry point says.
EndsAgreeWithRun ==
    \A e \in ExtractEntries :
        (Done(e) /\ llm_calls >= 1) =>
            \E reply \in RepliesOfCall : CallEnd = EndOf(e, reply)

\* C27: for the same input text and the same sequence of service outcomes,
\* extract_structured and extract_structured_async end the same way: the same
\* dossier or LLMExtractionError in both, after the same number of service
\* calls.  Stated on a finished call of one entry point: the other entry
\* point, given the same service script and reply, ends as this call did.
C27_SyncAndAsyncAgree ==
    \A e \in ExtractEntries :
        (Done(e) /\ llm_calls >= 1) =>
            \A other \in ExtractEntries \ {e} :
                \A reply \in RepliesOfCall : EndOf(other, reply) = CallEnd

\* ---------------------------------------------------------------------- C28
\* One step of the CVAnalysis record: it is created "pending", and a pending
\* record becomes "completed" or "failed"; any other step leaves its status.
RecordStep ==
    \/ extraction_status' = extraction_status
    \/ extraction_status = "none" /\ extraction_status' = "pending"
    \/ extraction_status = "pending" /\ extraction_status' \in {"completed", "failed"}

C29_StatsSnapshot ==
    stats.pc = "done" =>
        /\ stats.pending_analyses >= 0
        /\ stats.successful_analyses + stats.failed_analyses <= stats.total_analyses

\* ---------------------------------------------------------------------- C30
AcceptedWith(s) == {c \in DOMAIN callbacks : callbacks[c].accepted /\ callbacks[c].state = s}

\* A callback is accepted in this step only with a state that is stored, and
\* the step consumes it.
AcceptStep ==
    \A c \in DOMAIN callbacks :
        (~callbacks[c].accepted /\ callbacks'[c].accepted) =>
            /\ callbacks'[c].state \in oauth_states
            /\ callbacks'[c].state \notin oauth_states'

\* C30: a callback goes on to the token exchange only with a state that an
\* earlier login issued and that is not consumed yet: over any interleaving
\* of logins and callbacks no state is accepted more often than it was
\* issued, a stored state is an issued one, and a callback whose state was
\* unknown or used never obtains a session.
C30_StateAcceptedOnce ==
    /\ [][AcceptStep]_vars
    /\ [](\A s \in DOMAIN issued :
            /\ Cardinality(AcceptedWith(s)) <= issued[s]
            /\ s \in oauth_states => issued[s] >= 1)
    /\ [](\A c \in DOMAIN callbacks :
            /\ callbacks[c].pc = "exchange" => callbacks[c].accepted
            /\ callbacks[c].session => callbacks[c].accepted)

\* a login, a callback that got a session with its state, and a second
\* callback refused with the same state
C30_Witness ==
    /\ issued["s1"] = 1
    /\ callbacks[1] = [pc |-> "done", state |-> "s1", accepted |-> TRUE, session |-> TRUE]
    /\ callbacks[2] = [pc |-> "done", state |-> "s1", accepted |-> FALSE, session |-> FALSE]

====
